---------------------------- MODULE Spec2Model ----------------------------
(***************************************************************************)
(* A model of BRICK: the replay engine (BrickPlayer), the action recorder  *)
(* (BrickRecorder), the pattern extractor, task synthesizer and feedback   *)
(* learner (AbsoluteZeroGenerator), the variation generator                *)
(* (TaskGenerator) and the instruction translator (MCPTranslator).         *)
(*                                                                         *)
(* Each component has a specification of its own (SpecPlayer,              *)
(* SpecRecorder, SpecExtractor, SpecSynthesizer, SpecFeedback,             *)
(* SpecVariation, SpecTranslator); the variables of the other components   *)
(* stay at their initial values under it.  SpecPlayerFair is the player    *)
(* under a fair event loop, SpecColdStartFailure the generator over a      *)
(* store with rows it cannot distil, SpecMerge the merging of several      *)
(* recordings.                                                             *)
(*                                                                         *)
(* JavaScript runs one task at a time.  An async function runs             *)
(* synchronously up to its first await; what follows the await is a        *)
(* continuation (a microtask, or a timer callback for setTimeout).  An     *)
(* action of the model is one such synchronous stretch.                    *)
(***************************************************************************)
EXTENDS Integers, Sequences, FiniteSets, TLC

VARIABLES
    \* ---- BrickPlayer (src/unnamed/part_002) ----
    actions,        \* this.actions: the loaded sequence
    isPlaying,      \* this.isPlaying
    currentIndex,   \* this.currentIndex (0-based, as in the code)
    runs,           \* the invocations of play() that started a loop, in call order
    calls,          \* number of load(), play() and stop() calls so far (bounded)
    ignored,        \* the last step was a play() called while Playing or with nothing loaded
    \* ---- BrickRecorder (src/src/lib/brick/recorder.ts) ----
    isRecording,    \* this.isRecording
    startTime,      \* this.startTime
    now,            \* Date.now()
    heap,           \* the arrays ever assigned to this.actions, by reference
    recActions,     \* this.actions: the reference (index into heap) of the buffer
    pending,        \* handlers suspended at `await this.getCurrentContext()`, FIFO
    signals,        \* number of signals received while Recording
    session,        \* number of start() calls so far
    returned,       \* what stop() returned: the reference and the contents then
    monitors,       \* which of the three intervals are armed, and whether dispose() ran
    \* ---- AbsoluteZeroGenerator (src/unnamed/part_001) ----
    db,             \* the recordings the persistence collaborator holds: their actions
    dbEnvironment,  \* the environment of each stored recording, by the same index
    scan,           \* cold-start scan: "pending" | "done" | "failed" (the query rejected) | "thrown" (the loop threw)
    successPatterns,    \* this.successPatterns
    learningHistory,    \* this.learningHistory
    emergentKnowledge,  \* this.emergentKnowledge, the weights in tenths
    generated,      \* what the last call of generateFutureTask returned, if any
    \* ---- TaskGenerator (src/unnamed/part_003) ----
    recordings,     \* the recordings handed to the generator
    contexts,       \* the context objects of their actions, by reference
    original,       \* contexts as it was when the recordings were created
    synthetic,      \* what the last call of createVariation or mergeTasks returned
    generatorCalls, \* number of calls of createVariation and mergeTasks so far
    \* ---- MCPTranslator (src/src/lib/brick/mcp.ts) ----
    recorded,       \* the actions handed to translateToInstructions
    emitted,        \* its local `instructions` when the loop over the actions ends
    instructions,   \* what translateToInstructions returned
    llmPrompt,      \* what generateLLMPrompt returned
    code,           \* what generateExecutableCode returned
    origin,         \* for each of them, the action (1-based) whose iteration pushed it
    translator      \* how far the caller of the translator has got

pvars == <<actions, isPlaying, currentIndex, runs, calls, ignored>>
rvars == <<isRecording, startTime, now, heap, recActions, pending, signals,
           session, returned, monitors>>
evars == <<db, dbEnvironment, scan, successPatterns, learningHistory,
           emergentKnowledge, generated>>
tvars == <<recordings, contexts, original, synthetic, generatorCalls>>
mvars == <<recorded, emitted, origin, instructions, llmPrompt, code, translator>>
vars  == <<pvars, rvars, evars, tvars, mvars>>

-----------------------------------------------------------------------------
(* Bounds of the model *)

MaxLen == 2         \* longest sequence passed to load()
MaxCalls == 4       \* calls of load(), play() and stop()
MaxSessions == 2    \* calls of start()
MaxSignals == 2     \* signals received while Recording
MaxClock == 1       \* last instant of the clock
MaxTaskLen == 2     \* longest stored recording
MaxDb == 1          \* stored recordings
MaxSpanLen == 7     \* longest evenly typed recording (see SpanTasks)
MaxRepeatLen == 5   \* longest recording with repeated actions (see RepeatTasks)
MaxStore == 2       \* stored recordings the synthesizer starts from
MaxFeedback == 2    \* calls of recordFeedback
MaxVarLen == 2      \* longest recording handed to the TaskGenerator
MaxRecordings == 1  \* recordings handed to the TaskGenerator
MaxGeneratorCalls == 1  \* calls of createVariation and mergeTasks
MaxRecorded == 3    \* longest sequence handed to translateToInstructions
MaxSources == 2     \* recordings handed to mergeTasks
MaxSourceLen == 3   \* longest of them

SeqsUpTo(S, n) == UNION {[1..k -> S] : k \in 0..n}

-----------------------------------------------------------------------------
(* BrickPlayer *)

\* The actions handed to the player, by what executeAction reads of them:
\* the type, the selector of a mouse target ("" is what `selector || ''`
\* yields without one), the system-call type, and event.timestamp.
PlayerActions ==
    {[type |-> "mouse", selector |-> "#save", call |-> "none", timestamp |-> 0],
     [type |-> "mouse", selector |-> "", call |-> "none", timestamp |-> 0],
     [type |-> "keyboard", selector |-> "none", call |-> "none", timestamp |-> 1],
     [type |-> "system", selector |-> "none", call |-> "processStart", timestamp |-> 1],
     [type |-> "system", selector |-> "none", call |-> "custom", timestamp |-> 0]}

NoAction == [type |-> "none", selector |-> "none", call |-> "none", timestamp |-> 0]

\* initializeSystemCallHandlers: the system-call types with a handler.
systemCallHandlers == {"processStart", "serviceControl", "windowManagement"}

\* executeMouseAction: document.querySelector(selector || '') throws a
\* SyntaxError on a selector it cannot parse, of which the empty one stands
\* here; otherwise the event is dispatched on the element found (or nothing
\* happens when there is none).
ExecuteMouseActionThrows(a) == a.selector = ""

\* executeAction's `case 'keyboard'` calls this.executeKeyboardAction, which the
\* class does not define (the method is named executeKeyboardEvent): the call
\* throws a TypeError before any event is dispatched.
ExecuteKeyboardActionThrows(a) == TRUE

\* executeSystemAction: a handler is awaited when there is one, an unhandled
\* type is only warned about; neither path throws.
ExecuteSystemActionThrowsUnhandled(a) == a.call \notin systemCallHandlers
ExecuteSystemActionThrows(a) == FALSE

\* executeAction: the switch on action.type; an error is logged and rethrown.
ExecuteActionThrows(a) ==
    CASE a.type = "mouse"    -> ExecuteMouseActionThrows(a)
      [] a.type = "keyboard" -> ExecuteKeyboardActionThrows(a)
      [] a.type = "system"   -> ExecuteSystemActionThrows(a)
      [] OTHER               -> FALSE

\* A variant of the next definition in which a rejected dispatch does not end
\* the loop: the failed action is skipped.
CatchContinues(threw) == FALSE

\* play()'s try/catch/finally. A rejected `await this.executeAction(action)`
\* leaves the while loop through the catch block.
CatchLeavesLoop(threw) == threw

\* What the promise returned by play() settles to: the catch block logs the
\* error and does not rethrow, so the promise is fulfilled either way.
PlayOutcome(threw) == "fulfilled"

\* A run of play(): pc is where the loop is suspended ("dispatch": at
\* `await this.executeAction(action)`, "sleep": at the setTimeout promise,
\* "done": returned); action is the loop's `const action`; log lists the
\* indices executeAction was called with; threw says that the last call threw;
\* outcome is how play()'s promise settled.  stopped and disturbed record that
\* stop(), or stop() or load(), was called while the run was live; alone, that
\* no other run was live when this one began; reloaded, that load() was
\* called since the run last called executeAction; wait is the delay the run
\* asked setTimeout for after the last dispatch that returned (0 when it did
\* not suspend, and once the run has returned).
NewRun ==
    [pc |-> "done", action |-> NoAction, log |-> <<>>, threw |-> FALSE,
     outcome |-> "none", stopped |-> FALSE, disturbed |-> FALSE,
     alone |-> TRUE, reloaded |-> FALSE, wait |-> 0]

Live(r) == r.pc # "done"

\* `const action = this.actions[this.currentIndex]; await this.executeAction(action)`
BeginDispatch(r, idx, acts) ==
    [r EXCEPT !.pc = "dispatch", !.action = acts[idx + 1],
              !.log = Append(@, idx), !.reloaded = FALSE,
              !.threw = ExecuteActionThrows(acts[idx + 1])]

\* The finally block and the return.
Return(r) ==
    [r EXCEPT !.pc = "done", !.outcome = PlayOutcome(r.threw), !.wait = 0]

\* A variant of the next definition that leaves the flag as it is.
finallyKeepsFlag(playing) == playing

\* `finally { this.isPlaying = false; }`: the value of the flag after it.
finally(playing) == FALSE

\* The head of the while loop, reached by run r with cursor idx.
LoopHead(i, r, idx) ==
    IF idx < Len(actions) /\ isPlaying
    THEN /\ runs' = [runs EXCEPT ![i] = BeginDispatch(r, idx, actions)]
         /\ UNCHANGED isPlaying
    ELSE /\ runs' = [runs EXCEPT ![i] = Return(r)]
         /\ isPlaying' = finally(isPlaying)

\* load(recording)
Load(rec) ==
    /\ calls < MaxCalls
    /\ calls' = calls + 1
    /\ actions' = rec
    /\ currentIndex' = 0
    /\ runs' = [i \in DOMAIN runs |->
                  IF Live(runs[i])
                  THEN [runs[i] EXCEPT !.disturbed = TRUE, !.reloaded = TRUE]
                  ELSE [runs[i] EXCEPT !.reloaded = TRUE]]
    /\ ignored' = FALSE
    /\ UNCHANGED <<isPlaying, rvars, evars,
                   tvars, mvars>>

\* `if (this.isPlaying || this.actions.length === 0) return;`
ReturnsAtOnceWhenEmpty(playing, acts) == Len(acts) = 0
ReturnsAtOnce(playing, acts) == playing \/ Len(acts) = 0

\* play(), up to its first await.
Play ==
    /\ ignored' = (isPlaying \/ Len(actions) = 0)
    /\ IF ReturnsAtOnce(isPlaying, actions)
       THEN UNCHANGED <<actions, isPlaying, currentIndex, runs, calls>>
       ELSE /\ calls < MaxCalls
            /\ calls' = calls + 1
            /\ isPlaying' = TRUE
            /\ currentIndex' = 0
            /\ runs' = Append(runs,
                   BeginDispatch([NewRun EXCEPT !.alone =
                                      \A j \in DOMAIN runs : ~Live(runs[j])],
                                 0, actions))
            /\ UNCHANGED actions
    /\ UNCHANGED <<rvars, evars,
                   tvars, mvars>>

\* stop()
Stop ==
    /\ calls < MaxCalls
    /\ calls' = calls + 1
    /\ isPlaying' = FALSE
    /\ runs' = [i \in DOMAIN runs |->
                  IF Live(runs[i])
                  THEN [runs[i] EXCEPT !.stopped = TRUE, !.disturbed = TRUE]
                  ELSE runs[i]]
    /\ ignored' = FALSE
    /\ UNCHANGED <<actions, currentIndex, rvars, evars,
                   tvars, mvars>>

\* `const delay = nextAction.event.timestamp - action.event.timestamp`
delayFromStart(nextAction, action) == nextAction.timestamp
delay(nextAction, action) == nextAction.timestamp - action.timestamp

\* The continuation of `await this.executeAction(action)`: the catch block
\* when the dispatch threw; otherwise currentIndex++, the delay to the next
\* action, and (without a positive delay) the next iteration.
DispatchSettled(i) ==
    /\ i \in DOMAIN runs
    /\ runs[i].pc = "dispatch"
    /\ IF CatchLeavesLoop(runs[i].threw)
       THEN /\ runs' = [runs EXCEPT ![i] = Return(@)]
            /\ isPlaying' = finally(isPlaying)
            /\ UNCHANGED currentIndex
       ELSE /\ currentIndex' = currentIndex + 1
            /\ IF /\ currentIndex + 1 < Len(actions)
                  /\ delay(actions[currentIndex + 2], runs[i].action) > 0
               THEN /\ runs' = [runs EXCEPT
                           ![i].pc = "sleep",
                           ![i].wait = delay(actions[currentIndex + 2],
                                             runs[i].action)]
                    /\ UNCHANGED isPlaying
               ELSE LoopHead(i, [runs[i] EXCEPT !.wait = 0], currentIndex + 1)
    /\ ignored' = FALSE
    /\ UNCHANGED <<actions, calls, rvars, evars,
                   tvars, mvars>>

\* The continuation of the setTimeout promise: the next iteration.  A timer
\* callback is a task of its own: it runs once the pending continuations of
\* the dispatches in flight have run.
TimerFired(i) ==
    /\ i \in DOMAIN runs
    /\ runs[i].pc = "sleep"
    /\ \A j \in DOMAIN runs : runs[j].pc # "dispatch"
    /\ LoopHead(i, runs[i], currentIndex)
    /\ ignored' = FALSE
    /\ UNCHANGED <<actions, currentIndex, calls, rvars, evars,
                   tvars, mvars>>

\* getProgress, as a fraction
getProgress ==
    IF Len(actions) # 0 THEN [num |-> currentIndex * 100, den |-> Len(actions)]
    ELSE [num |-> 0, den |-> 1]

InitPlayer ==
    /\ actions = <<>>
    /\ isPlaying = FALSE
    /\ currentIndex = 0
    /\ runs = <<>>
    /\ calls = 0
    /\ ignored = FALSE

NextPlayer ==
    \/ \E rec \in SeqsUpTo(PlayerActions, MaxLen) : Load(rec)
    \/ Play
    \/ Stop
    \/ \E i \in 1..MaxCalls : DispatchSettled(i)
    \/ \E i \in 1..MaxCalls : TimerFired(i)

-----------------------------------------------------------------------------
(* BrickRecorder *)

\* The handlers run as listeners.  A listener the browser invokes for a user
\* event is a task of its own; a listener reached through dispatchEvent runs
\* inside the calling script, which goes on (further events, start(), stop())
\* before any continuation runs.  The periodic probes are timer callbacks:
\* tasks that hold nothing but the probe.

\* The action a handler builds on a signal: id stands for
\* crypto.randomUUID() (the number of the signal, so ids are unique and tell
\* the order of arrival), subtype is event.type, timestamp is
\* `Date.now() - this.startTime`, all
\* evaluated when the handler starts.  at and session note the clock and the
\* session at that moment.
NewAction(type, subtype) ==
    [id |-> signals + 1, type |-> type, subtype |-> subtype,
     timestamp |-> now - startTime,
     at |-> now, session |-> session]

\* recordAction: this.actions.push(action) on the array this.actions refers to
\* when it is called.
recordAction(a) == heap' = [heap EXCEPT ![recActions] = Append(@, a)]

\* start()
Start ==
    /\ session < MaxSessions
    /\ isRecording' = TRUE
    /\ startTime' = now
    /\ heap' = Append(heap, <<>>)
    /\ recActions' = Len(heap) + 1
    /\ session' = session + 1
    /\ UNCHANGED <<now, pending, signals, returned, monitors, pvars,
                   evars, tvars, mvars>>

\* stop(): returns this.actions, the array itself.
StopRecording ==
    /\ isRecording' = FALSE
    /\ returned' = returned \cup {[ref |-> recActions, snapshot |-> heap[recActions]]}
    /\ UNCHANGED <<startTime, now, heap, recActions, pending, signals, session,
                   monitors, pvars,
                   evars, tvars, mvars>>

\* Date.now() advances.
Tick ==
    /\ now < MaxClock
    /\ now' = now + 1
    /\ UNCHANGED <<isRecording, startTime, heap, recActions, pending, signals,
                   session, returned, monitors, pvars,
                   evars, tvars, mvars>>

\* handleKeyboardEvent: synchronous, the action is pushed before it returns.
HandleKeyboardEvent ==
    /\ isRecording
    /\ signals < MaxSignals
    /\ signals' = signals + 1
    /\ recordAction(NewAction("keyboard", "keydown"))
    /\ UNCHANGED <<isRecording, startTime, now, recActions, pending, session,
                   returned, monitors, pvars,
                   evars, tvars, mvars>>

\* handleSystemEvent (focus, blur, resize): synchronous as well.
HandleSystemEvent ==
    /\ isRecording
    /\ signals < MaxSignals
    /\ signals' = signals + 1
    /\ recordAction(NewAction("system", "focus"))
    /\ UNCHANGED <<isRecording, startTime, now, recActions, pending, session,
                   returned, monitors, pvars,
                   evars, tvars, mvars>>

\* handleMouseEvent up to `await this.getCurrentContext()`: isRecording is
\* tested and the event, with its timestamp, is built; the call of
\* recordAction waits for the context.
HandleMouseEvent ==
    /\ isRecording
    /\ signals < MaxSignals
    /\ signals' = signals + 1
    /\ pending' = Append(pending, NewAction("mouse", "click"))
    /\ UNCHANGED <<isRecording, startTime, now, heap, recActions, session,
                   returned, monitors, pvars,
                   evars, tvars, mvars>>

\* The continuation of `await this.getCurrentContext()`: recordAction is
\* called.  Continuations run in the order the handlers were suspended.
ContextResolved ==
    /\ pending # <<>>
    /\ recordAction(Head(pending))
    /\ pending' = Tail(pending)
    /\ UNCHANGED <<isRecording, startTime, now, recActions, signals, session,
                   returned, monitors, pvars,
                   evars, tvars, mvars>>

\* A tick of the process or service monitor: captureProcessInfo or
\* captureServiceInfo when isRecording.  The callback is a task of its own,
\* started with no continuation pending, and its own continuation follows it
\* at once.
MonitorTick ==
    /\ monitors.processMonitor \/ monitors.serviceMonitor
    /\ isRecording
    /\ pending = <<>>
    /\ signals < MaxSignals
    /\ signals' = signals + 1
    /\ recordAction(NewAction("system", "systemCall"))
    /\ UNCHANGED <<isRecording, startTime, now, recActions, pending, session,
                   returned, monitors, pvars,
                   evars, tvars, mvars>>

\* dispose(): clearInterval for each of the three intervals, then
\* this.guiScraper.dispose() is called (its promise is dropped).  isRecording,
\* the buffer and the window listeners are left as they are.
Dispose ==
    /\ monitors' = [processMonitor |-> FALSE, serviceMonitor |-> FALSE,
                    guiUpdateInterval |-> FALSE, disposed |-> TRUE]
    /\ UNCHANGED <<isRecording, startTime, now, heap, recActions, pending,
                   signals, session, returned, pvars, evars, tvars, mvars>>

InitRecorder ==
    /\ isRecording = FALSE
    /\ startTime = 0
    /\ now = 0
    /\ heap = << <<>> >>
    /\ recActions = 1
    /\ pending = <<>>
    /\ signals = 0
    /\ session = 0
    /\ returned = {}
    \* the constructor: initializeSystemMonitors arms the three intervals
    /\ monitors = [processMonitor |-> TRUE, serviceMonitor |-> TRUE,
                   guiUpdateInterval |-> TRUE, disposed |-> FALSE]

NextRecorder ==
    \/ Start
    \/ StopRecording
    \/ Tick
    \/ HandleKeyboardEvent
    \/ HandleSystemEvent
    \/ HandleMouseEvent
    \/ ContextResolved
    \/ MonitorTick
    \/ Dispose

-----------------------------------------------------------------------------
(* Strings of which the code reads the characters are sequences of
   characters; toLowerCase and includes work on them as in JavaScript. *)

LowerChar(c) ==
    CASE c = "A" -> "a" [] c = "C" -> "c" [] c = "E" -> "e" [] c = "I" -> "i"
      [] c = "L" -> "l" [] c = "M" -> "m" [] c = "N" -> "n" [] c = "S" -> "s"
      [] c = "T" -> "t" [] c = "U" -> "u" [] c = "W" -> "w" [] c = "X" -> "x"
      [] OTHER -> c

\* String.prototype.toLowerCase
toLowerCase(str) == [k \in DOMAIN str |-> LowerChar(str[k])]

\* String.prototype.includes: sub occurs in str as a run of characters.
includes(str, sub) ==
    \E i \in 0..(Len(str) - Len(sub)) : SubSeq(str, i + 1, i + Len(sub)) = sub

\* BrickEnvironmentContext, by the fields the generator reads: os.name,
\* locale and timezone.
Environments ==
    {[os |-> <<"M", "a", "c">>, locale |-> <<"e", "n", "-", "U", "S">>,
      timezone |-> <<"U", "T", "C">>],
     [os |-> <<"L", "i", "n", "u", "x">>, locale |-> <<"e", "n", "-", "U", "S">>,
      timezone |-> <<"U", "T", "C">>]}

\* The environment generateOptimalEnvironment falls back on.
DefaultEnvironment ==
    [os |-> <<"W", "i", "n", "d", "o", "w", "s">>,
     locale |-> <<"e", "n", "-", "U", "S">>,
     timezone |-> <<"U", "T", "C">>]

-----------------------------------------------------------------------------
(* AbsoluteZeroGenerator: the cold-start scan *)

\* The stored actions, by what the scan reads of them: the type, event.type
\* (subtype), whether event.systemCall carries an error, and
\* event.timestamp.  The event payload is all but the type.
TaskTimes == {0, 200}
TaskActions ==
    [type : {"mouse"}, subtype : {"click"}, error : {FALSE}, timestamp : TaskTimes]
    \cup [type : {"keyboard"}, subtype : {"keydown"}, error : {FALSE},
          timestamp : TaskTimes]
    \cup [type : {"system"}, subtype : {"systemCall"}, error : BOOLEAN,
          timestamp : TaskTimes]

\* Longer recordings, of which only the length and the time spanned vary: n
\* actions, mouse and keyboard in turn (so no two neighbours are similar), the
\* first at 0 and the others at span.
Spans == {499, 500, 501}
SpanTask(n, span) ==
    [k \in 1..n |->
        [type |-> IF k % 2 = 1 THEN "mouse" ELSE "keyboard",
         subtype |-> IF k % 2 = 1 THEN "click" ELSE "keydown",
         error |-> FALSE,
         timestamp |-> IF k = 1 THEN 0 ELSE span]]
SpanTasks == {SpanTask(n, span) : n \in 3..MaxSpanLen, span \in Spans}

\* Recordings that repeat an action: n actions, the first of which is followed
\* by `redundant` copies of itself (same type, same event), the others being
\* keyboard and mouse in turn at 100, so that no other two neighbours are
\* similar and the time spanned is 100.
RepeatTask(n, redundant) ==
    [k \in 1..n |->
        IF k <= redundant + 1
        THEN [type |-> "mouse", subtype |-> "click", error |-> FALSE,
              timestamp |-> 0]
        ELSE [type |-> IF k % 2 = 1 THEN "mouse" ELSE "keyboard",
              subtype |-> IF k % 2 = 1 THEN "click" ELSE "keydown",
              error |-> FALSE,
              timestamp |-> 100]]
RepeatTasks == {RepeatTask(n, redundant) : n \in 4..MaxRepeatLen, redundant \in 0..2}

Tasks == SeqsUpTo(TaskActions, MaxTaskLen) \cup SpanTasks \cup RepeatTasks

\* JavaScript numbers that are quotients of integers are kept as fractions
\* num/den; den = 0 stands for NaN (0/0).
Frac(n, d) == [num |-> n, den |-> d]
\* f > p/q, false for NaN as every comparison with NaN is.
GreaterThan(f, p, q) == f.den # 0 /\ f.num * q > p * f.den

SeqMax(f) == CHOOSE x \in {f[k] : k \in DOMAIN f} : \A k \in DOMAIN f : f[k] <= x
SeqMin(f) == CHOOSE x \in {f[k] : k \in DOMAIN f} : \A k \in DOMAIN f : x <= f[k]

\* A variant of the next definition that flags no action.
isErrorActionNever(a) == FALSE

\* isErrorAction: a system action whose event has a systemCall with an error;
\* no other action is flagged.
isErrorAction(a) == a.type = "system" /\ a.error

\* getTotalExecutionTime
getTotalExecutionTime(acts) ==
    IF Len(acts) = 0 THEN 0
    ELSE SeqMax([k \in DOMAIN acts |-> acts[k].timestamp])
           - SeqMin([k \in DOMAIN acts |-> acts[k].timestamp])

\* The fixed cost per action of calculateOptimalTime.
PerActionCost == 50

\* calculateOptimalTime
calculateOptimalTime(acts) == Len(acts) * PerActionCost

\* calculateExecutionEfficiency: Math.min(1, optimalTime / totalTime); the
\* quotient is Infinity when totalTime is 0 (optimalTime is positive then).
calculateExecutionEfficiency(acts) ==
    IF Len(acts) = 0 THEN Frac(0, 1)
    ELSE LET totalTime == getTotalExecutionTime(acts)
             optimalTime == calculateOptimalTime(acts)
         IN  IF totalTime = 0 \/ optimalTime >= totalTime
             THEN Frac(1, 1)
             ELSE Frac(optimalTime, totalTime)

\* areActionsSimilar: same type and same JSON.stringify(event).
areActionsSimilar(a1, a2) ==
    /\ a1.type = a2.type
    /\ a1.subtype = a2.subtype /\ a1.error = a2.error
    /\ a1.timestamp = a2.timestamp

\* countRedundantActions
countRedundantActions(acts) ==
    Cardinality({k \in 2..Len(acts) : areActionsSimilar(acts[k - 1], acts[k])})

\* calculateCleanlinessScore: Math.max(0, 1 - redundant / total); NaN for no
\* actions. 1 - redundant/total is never negative.
calculateCleanlinessScore(acts) ==
    Frac(Len(acts) - countRedundantActions(acts), Len(acts))

\* A variant of the next definition that passes a recording on its timing and
\* completion alone.
hasPositiveFeedbackNoCleanliness(task) ==
    /\ Len(task) > 0 /\ ~\E k \in DOMAIN task : isErrorAction(task[k])
    /\ GreaterThan(calculateExecutionEfficiency(task), 7, 10)

\* hasPositiveFeedback
hasPositiveFeedback(task) ==
    LET hasCompletedSuccessfully ==
            Len(task) > 0 /\ ~\E k \in DOMAIN task : isErrorAction(task[k])
        hasOptimalTiming == GreaterThan(calculateExecutionEfficiency(task), 7, 10)
        hasCleanExecution == GreaterThan(calculateCleanlinessScore(task), 8, 10)
    IN  hasCompletedSuccessfully /\ hasOptimalTiming /\ hasCleanExecution

\* The characters of the strings that occur as an action's type and as its
\* event.type, and the string that has given characters (any other run of
\* characters is a string of no interest, "other").
Spelled == {"mouse", "keyboard", "system", "click", "keydown", "systemCall",
            "unknown"}
Spell(name) ==
    CASE name = "mouse" -> <<"m", "o", "u", "s", "e">>
      [] name = "keyboard" -> <<"k", "e", "y", "b", "o", "a", "r", "d">>
      [] name = "system" -> <<"s", "y", "s", "t", "e", "m">>
      [] name = "click" -> <<"c", "l", "i", "c", "k">>
      [] name = "keydown" -> <<"k", "e", "y", "d", "o", "w", "n">>
      [] name = "systemCall" ->
           <<"s", "y", "s", "t", "e", "m", "C", "a", "l", "l">>
      [] name = "unknown" -> <<"u", "n", "k", "n", "o", "w", "n">>
Unspell(chars) ==
    IF \E name \in Spelled : Spell(name) = chars
    THEN CHOOSE name \in Spelled : Spell(name) = chars
    ELSE "other"

\* extractActionSequence: the tokens `${action.type}:${action.event.type}`,
\* 'unknown' for an action of no known type.
extractActionSequence(acts) ==
    [k \in DOMAIN acts |->
        IF acts[k].type \in {"mouse", "keyboard", "system"}
        THEN Spell(acts[k].type) \o <<":">> \o Spell(acts[k].subtype)
        ELSE Spell("unknown")]

\* String.prototype.split(separator): the pieces between the separators.
RECURSIVE split(_, _)
split(str, separator) ==
    IF \E i \in DOMAIN str : str[i] = separator
    THEN LET i == CHOOSE i \in DOMAIN str :
                      str[i] = separator /\ \A j \in 1..(i - 1) : str[j] # separator
         IN  <<SubSeq(str, 1, i - 1)>>
                 \o split(SubSeq(str, i + 1, Len(str)), separator)
    ELSE <<str>>

\* inferUserSatisfaction: (efficiency + cleanliness) / 2.
inferUserSatisfaction(acts) ==
    LET e == calculateExecutionEfficiency(acts)
        c == calculateCleanlinessScore(acts)
    IN  Frac(e.num * c.den + c.num * e.den, 2 * e.den * c.den)

\* extractContextFeatures: the environment tags.
extractContextFeatures(env) == <<env.os, env.locale, env.timezone>>

\* extractSuccessPattern, for the recording at index k of the query's result;
\* k stands for the fresh crypto.randomUUID().
extractSuccessPattern(k, task) ==
    [id |-> k,
     actionSequence |-> extractActionSequence(task),
     completionRate |-> 1,
     executionTime |-> getTotalExecutionTime(task),
     errorRate |-> 0,
     userSatisfaction |-> inferUserSatisfaction(task),
     environment |-> extractContextFeatures(dbEnvironment[k])]

\* A row of the query's result without an environment (the column is null):
\* extractContextFeatures reads task.environment.os.name and throws a
\* TypeError.  The rows of the generator's own recordings have one.
NoEnvironment == [missing |-> TRUE]
throws(k) == hasPositiveFeedback(db[k]) /\ "os" \notin DOMAIN dbEnvironment[k]

\* The index of the first recording on which the loop throws, past the end
\* if there is none.
firstThrow ==
    IF \E k \in DOMAIN db : throws(k)
    THEN CHOOSE k \in DOMAIN db : throws(k) /\ \A j \in 1..(k - 1) : ~throws(j)
    ELSE Len(db) + 1

\* A variant of the next definition in which the catch block empties the
\* store.
scannedOrNothing(upTo) ==
    IF upTo \in DOMAIN db THEN {}
    ELSE {extractSuccessPattern(k, db[k]) :
             k \in {j \in 1..(upTo - 1) : hasPositiveFeedback(db[j])}}

\* The patterns the loop has set when it reaches the recording at index
\* upTo: one for every qualifying recording before it.
scanned(upTo) ==
    {extractSuccessPattern(k, db[k]) :
        k \in {j \in 1..(upTo - 1) : hasPositiveFeedback(db[j])}}

\* initializeFromSuccessfulTasks, from the resolution of searchRecordings('')
\* on: the loop over all recordings, to its end or to the recording on which
\* it throws; the catch block logs the error.
ColdStartScan ==
    /\ scan = "pending"
    /\ scan' = IF firstThrow \in DOMAIN db THEN "thrown" ELSE "done"
    /\ successPatterns' = scanned(firstThrow)
    /\ UNCHANGED <<db, dbEnvironment, learningHistory, emergentKnowledge,
                   generated, pvars, rvars,
                   tvars, mvars>>

\* initializeFromSuccessfulTasks when searchRecordings('') rejects: the catch
\* block logs the error.
ColdStartFails ==
    /\ scan = "pending"
    /\ scan' = "failed"
    /\ UNCHANGED <<db, dbEnvironment, successPatterns, learningHistory,
                   emergentKnowledge, generated, pvars, rvars,
                   tvars, mvars>>

\* The generator before its scan, with no recording stored.
IdleExtractor ==
    /\ db = <<>>
    /\ dbEnvironment = <<>>
    /\ scan = "pending"
    /\ successPatterns = {}
    /\ learningHistory = <<>>
    /\ emergentKnowledge = <<>>
    /\ generated = <<>>

\* The generator on construction, over any stored recordings.
InitExtractor ==
    /\ db \in SeqsUpTo(Tasks, MaxDb)
    /\ dbEnvironment = [k \in DOMAIN db |-> DefaultEnvironment]
    /\ scan = "pending"
    /\ successPatterns = {}
    /\ learningHistory = <<>>
    /\ emergentKnowledge = <<>>
    /\ generated = <<>>

NextExtractor ==
    \/ ColdStartScan
    \/ ColdStartFails

-----------------------------------------------------------------------------
(* AbsoluteZeroGenerator: generateFutureTask *)

\* The hints generateFutureTask is called with, by contextHints.os: none, or
\* a platform name; and the complexity levels, as fractions.
NoOs == <<"n", "o", "n", "e">>
Hints == {NoOs, <<"M", "A", "C">>, <<"w", "i", "n">>}
Levels == {Frac(0, 1), Frac(1, 10), Frac(3, 4), Frac(1, 1)}

Min(a, b) == IF a < b THEN a ELSE b
Max(a, b) == IF a > b THEN a ELSE b

\* Array.from(this.successPatterns.values()): the patterns in the order they
\* were set, which is the order of the scan.
Patterns(store) ==
    LET ids == {q.id : q \in store}
        Nth(r) == CHOOSE q \in store :
                      Cardinality({i \in ids : i < q.id}) = r - 1
    IN  [r \in 1..Cardinality(store) |-> Nth(r)]

\* A variant of the next definition that passes every pattern.
isPatternRelevantAlways(pattern, hints) == TRUE

\* isPatternRelevant
isPatternRelevant(pattern, hints) ==
    IF hints = NoOs THEN TRUE
    ELSE \E t \in DOMAIN pattern.environment :
             includes(toLowerCase(pattern.environment[t]), toLowerCase(hints))

\* calculatePatternScore: 0.4 completionRate + 0.3 (1 / executionTime)
\* + 0.2 (1 - errorRate) + 0.1 userSatisfaction, as a fraction; inf marks
\* Infinity, the value when executionTime is 0.
calculatePatternScore(pattern) ==
    LET t == pattern.executionTime
        sat == pattern.userSatisfaction
    IN  IF t = 0
        THEN [inf |-> TRUE, num |-> 1, den |-> 1]
        ELSE [inf |-> FALSE,
              num |-> (4 * pattern.completionRate + 2 * (1 - pattern.errorRate))
                          * t * sat.den
                      + 3 * sat.den + sat.num * t,
              den |-> 10 * t * sat.den]

\* The comparator of the sort, score(b) - score(a), by its sign; the
\* difference of two infinite scores is NaN, which sort takes for 0.
compareScores(a, b) ==
    LET sa == calculatePatternScore(a)
        sb == calculatePatternScore(b)
        d == sb.num * sa.den - sa.num * sb.den
    IN  IF sa.inf /\ sb.inf THEN 0
        ELSE IF sb.inf THEN 1
        ELSE IF sa.inf THEN -1
        ELSE IF d > 0 THEN 1 ELSE IF d < 0 THEN -1 ELSE 0

\* A variant of the next definition that leaves the patterns in the order of
\* the store.
sortByScoreAsStored(seq) == seq

\* Array.prototype.sort with that comparator: descending by score, patterns
\* that compare equal in the order they had (the sort is stable).
sortByScore(seq) ==
    LET Rank(i) == Cardinality({j \in DOMAIN seq :
                       \/ compareScores(seq[j], seq[i]) < 0
                       \/ compareScores(seq[j], seq[i]) = 0 /\ j < i})
    IN  [r \in DOMAIN seq |-> seq[CHOOSE i \in DOMAIN seq : Rank(i) = r - 1]]

\* A variant of the next definition without the lower limit of 1.
sliceEndWithoutLimit(level, total, relevant) ==
    (level.num * total) \div level.den

\* The end of the slice: Math.max(1, Math.floor(complexityLevel *
\* patterns.length)), where patterns is the whole store.
sliceEnd(level, total, relevant) ==
    Max(1, (level.num * total) \div level.den)

\* selectRelevantPatterns
selectRelevantPatterns(store, hints, level) ==
    LET patterns == Patterns(store)
        relevant == SelectSeq(patterns, LAMBDA q : isPatternRelevant(q, hints))
        sorted == sortByScore(relevant)
    IN  SubSeq(sorted, 1,
               Min(Len(sorted), sliceEnd(level, Len(patterns), Len(relevant))))

\* A variant of the next definition whose coordinates are not the same in
\* the first call of generateFutureTask and in a later one.
generateEventFromTypeDrifting(type, subtype, index) ==
    [type |-> type, subtype |-> subtype, x |-> 100 + index * 50 + Len(generated),
     y |-> 100 + index * 30, key |-> "generated", timestamp |-> index * 100]

\* generateEventFromType, with the 0-based index of the token; with the type
\* it makes the action (x, y are -1 and key is "none" where the event has no
\* such field).
generateEventFromType(type, subtype, index) ==
    CASE type = "mouse" ->
           [type |-> type, subtype |-> subtype, x |-> 100 + index * 50,
            y |-> 100 + index * 30, key |-> "none", timestamp |-> index * 100]
      [] type = "keyboard" ->
           [type |-> type, subtype |-> subtype, x |-> -1, y |-> -1,
            key |-> "generated", timestamp |-> index * 100]
      [] OTHER ->
           [type |-> type, subtype |-> subtype, x |-> -1, y |-> -1,
            key |-> "none", timestamp |-> index * 100]

\* reconstructActionsFromPattern: `const [type, subtype] =
\* actionType.split(':')`, the first two pieces of the token (subtype is
\* undefined when there is one piece only).
reconstructActionsFromPattern(pattern) ==
    [k \in DOMAIN pattern.actionSequence |->
        LET pieces == split(pattern.actionSequence[k], ":")
        IN  generateEventFromType(
                Unspell(pieces[1]),
                IF Len(pieces) > 1 THEN Unspell(pieces[2]) ELSE "undefined",
                k - 1)]

\* synthesizeActions: the reconstructed sequences one after the other, the
\* timestamps replaced by a counter that runs over the whole output.
RECURSIVE Concat(_)
Concat(seqs) == IF seqs = <<>> THEN <<>> ELSE Head(seqs) \o Concat(Tail(seqs))
synthesizeActions(patterns) ==
    LET all == Concat([i \in DOMAIN patterns |->
                           reconstructActionsFromPattern(patterns[i])])
    IN  [k \in DOMAIN all |-> [all[k] EXCEPT !.timestamp = k - 1]]

\* A variant of the next definition that takes two neighbours of one type
\* for duplicates.
removeRedundantActionsByType(acts) ==
    LET keep == {k \in DOMAIN acts :
                    k = 1 \/ acts[k].type # acts[k - 1].type}
        Nth(r) == CHOOSE k \in keep : Cardinality({j \in keep : j < k}) = r - 1
    IN  [r \in 1..Cardinality(keep) |-> acts[Nth(r)]]

\* removeRedundantActions: an action goes when areActionsSimilar to the one
\* before it, that is of its type and with the same JSON.stringify(event).
removeRedundantActions(acts) ==
    LET keep == {k \in DOMAIN acts :
                    k = 1 \/ ~(acts[k].type = acts[k - 1].type
                                /\ acts[k] = acts[k - 1])}
        Nth(r) == CHOOSE k \in keep : Cardinality({j \in keep : j < k}) = r - 1
    IN  [r \in 1..Cardinality(keep) |-> acts[Nth(r)]]

\* optimizeTimings
optimizeTimings(acts) ==
    [k \in DOMAIN acts |-> [acts[k] EXCEPT !.timestamp = (k - 1) * 75]]

\* A variant of the next definition that reads the knowledge map: what has
\* gained weight there is left out of the task.
applyEmergentPatternsFromKnowledge(acts) ==
    IF DOMAIN emergentKnowledge = {} THEN acts
    ELSE SelectSeq(acts, LAMBDA a : a.type # "mouse")

\* applyEmergentPatterns: the actions as they are.
applyEmergentPatterns(acts) == acts

\* applyLearnedOptimizations
applyLearnedOptimizations(acts) ==
    applyEmergentPatterns(optimizeTimings(removeRedundantActions(acts)))

\* generateOptimalEnvironment
generateOptimalEnvironment(hints) ==
    [os |-> IF hints = NoOs THEN DefaultEnvironment.os ELSE hints,
     locale |-> DefaultEnvironment.locale,
     timezone |-> DefaultEnvironment.timezone]

\* Math.round(level * scale)
Round(level, scale) ==
    (2 * level.num * scale + level.den) \div (2 * level.den)

\* The call has the arguments of the call before it, and finds the store
\* that call found.
SameCall(last, hints, level) ==
    last.hints = hints /\ last.level = level /\ last.store = successPatterns

\* What generateFutureTask returns, but for the fresh id and created_at:
\* selected lists the ids of relevantPatterns; name and tags carry the
\* rounded complexity, description the number of patterns.  hints, level,
\* store and knowledge note the arguments and the generator's state at the
\* call; repeated says that the call before had the same arguments and
\* store, learned that the knowledge map has changed since that call.
FutureTask(hints, level) ==
    LET relevantPatterns == selectRelevantPatterns(successPatterns, hints, level)
    IN  [hints |-> hints, level |-> level, store |-> successPatterns,
         knowledge |-> emergentKnowledge,
         repeated |-> generated # <<>> /\ SameCall(generated[1], hints, level),
         learned |-> generated # <<>>
                       /\ generated[1].knowledge # emergentKnowledge,
         selected |-> [i \in DOMAIN relevantPatterns |-> relevantPatterns[i].id],
         actions |-> applyLearnedOptimizations(synthesizeActions(relevantPatterns)),
         environment |-> generateOptimalEnvironment(hints),
         name |-> Round(level, 100),
         description |-> Len(relevantPatterns),
         tags |-> <<"generated", "absolute-zero", Round(level, 10)>>]

\* generateFutureTask(contextHints, complexityLevel)
GenerateFutureTask(hints, level) ==
    /\ generated' = <<FutureTask(hints, level)>>
    /\ UNCHANGED <<db, dbEnvironment, scan, successPatterns, learningHistory,
                   emergentKnowledge, pvars, rvars,
                   tvars, mvars>>

-----------------------------------------------------------------------------
(* AbsoluteZeroGenerator: recordFeedback *)

\* LearningFeedback, by the fields recordFeedback reads.
Names == {"adaptive-timing", "minimal-clicks"}
NameLists ==
    {<<>>, <<"adaptive-timing">>, <<"adaptive-timing", "adaptive-timing">>,
     <<"minimal-clicks", "adaptive-timing">>}
Feedbacks ==
    [success : BOOLEAN, emergentPatterns : NameLists, adaptations : NameLists]

\* this.emergentKnowledge.get(name) || 0
Weight(knowledge, name) ==
    IF name \in DOMAIN knowledge THEN knowledge[name] ELSE 0

\* this.emergentKnowledge.set(name, value)
SetWeight(knowledge, name, value) ==
    [n \in DOMAIN knowledge \cup {name} |->
        IF n = name THEN value ELSE knowledge[n]]

\* names.forEach(name => set(name, (get(name) || 0) + step)); step is in
\* tenths.
RECURSIVE Raise(_, _, _)
Raise(knowledge, names, step) ==
    IF names = <<>> THEN knowledge
    ELSE Raise(SetWeight(knowledge, Head(names),
                         Weight(knowledge, Head(names)) + step),
               Tail(names), step)

\* A variant of the next definition that leaves the adaptations out.
updateSuccessPatternsSkipped(knowledge, feedback) == knowledge

\* updateSuccessPatterns: 0.1 for every adaptation.
updateSuccessPatterns(knowledge, feedback) ==
    Raise(knowledge, feedback.adaptations, 1)

\* recordFeedback(feedback)
RecordFeedback(feedback) ==
    /\ Len(learningHistory) < MaxFeedback
    /\ learningHistory' = Append(learningHistory, feedback)
    /\ emergentKnowledge' =
           IF feedback.success
           THEN updateSuccessPatterns(
                    Raise(emergentKnowledge, feedback.emergentPatterns, 10),
                    feedback)
           ELSE emergentKnowledge
    /\ UNCHANGED <<db, dbEnvironment, scan, successPatterns, generated,
                   pvars, rvars,
                   tvars, mvars>>

\* The recordings the synthesizer's store is distilled from, with their
\* environments: two with finite scores (0.703 and 0.706) and one that
\* spans no time.
Mac == CHOOSE env \in Environments : env.os = <<"M", "a", "c">>
Linux == CHOOSE env \in Environments : env.os # Mac.os
SynthRecordings ==
    {[actions |->
        <<[type |-> "mouse", subtype |-> "click", error |-> FALSE,
           timestamp |-> 0],
          [type |-> "keyboard", subtype |-> "keydown", error |-> FALSE,
           timestamp |-> 100]>>,
      environment |-> Mac],
     [actions |->
        <<[type |-> "keyboard", subtype |-> "keydown", error |-> FALSE,
           timestamp |-> 0],
          [type |-> "mouse", subtype |-> "click", error |-> FALSE,
           timestamp |-> 50]>>,
      environment |-> Linux],
     [actions |->
        <<[type |-> "keyboard", subtype |-> "keydown", error |-> FALSE,
           timestamp |-> 0]>>,
      environment |-> Mac]}

\* The feedback the synthesizer is given between two generations.
SynthFeedbacks ==
    {f \in Feedbacks : /\ f.success
                       /\ f.emergentPatterns = <<"adaptive-timing">>
                       /\ f.adaptations = <<"minimal-clicks", "adaptive-timing">>}

\* The generator on construction, over the recordings of the synthesizer.
InitGenerator ==
    /\ \E recs \in SeqsUpTo(SynthRecordings, MaxStore) :
          /\ db = [k \in DOMAIN recs |-> recs[k].actions]
          /\ dbEnvironment = [k \in DOMAIN recs |-> recs[k].environment]
    /\ scan = "pending"
    /\ successPatterns = {}
    /\ learningHistory = <<>>
    /\ emergentKnowledge = <<>>
    /\ generated = <<>>

NextSynthesizer ==
    \/ ColdStartScan
    \/ ColdStartFails
    \/ \E hints \in Hints, level \in Levels : GenerateFutureTask(hints, level)
    \/ \E feedback \in SynthFeedbacks : RecordFeedback(feedback)

\* The generator on construction over a store that may hold rows without an
\* environment.
BrokenRecordings ==
    {[actions |-> rec.actions, environment |-> NoEnvironment] :
        rec \in {r \in SynthRecordings : r.environment = Mac /\ Len(r.actions) = 2}}

InitBrokenStore ==
    /\ \E recs \in SeqsUpTo(SynthRecordings \cup BrokenRecordings, MaxStore) :
          /\ db = [k \in DOMAIN recs |-> recs[k].actions]
          /\ dbEnvironment = [k \in DOMAIN recs |-> recs[k].environment]
    /\ scan = "pending"
    /\ successPatterns = {}
    /\ learningHistory = <<>>
    /\ emergentKnowledge = <<>>
    /\ generated = <<>>

NextColdStart ==
    \/ ColdStartScan
    \/ ColdStartFails
    \/ \E hints \in Hints, level \in Levels : GenerateFutureTask(hints, level)

NextFeedback ==
    \E feedback \in Feedbacks : RecordFeedback(feedback)

-----------------------------------------------------------------------------
(* TaskGenerator *)

\* The actions of the recordings, by what the generator reads of them: the
\* type, event.type (subtype), one coordinate of a mouse event (x, -1 where
\* there is none), event.timestamp, and context.systemState, of which
\* cpuUsage stands for the metrics (<<>> where the context has none).
VarActions ==
    {[type |-> "mouse", subtype |-> "click", x |-> 10, timestamp |-> 0,
      systemState |-> <<>>],
     [type |-> "keyboard", subtype |-> "keydown", x |-> -1, timestamp |-> 100,
      systemState |-> <<>>],
     [type |-> "system", subtype |-> "systemCall", x |-> -1, timestamp |-> 100,
      systemState |-> <<5>>]}
VarTasks == SeqsUpTo(VarActions, MaxVarLen)

\* randomVariation(max): (Math.random() - 0.5) * max, in units of max / 2.
Noise == {-1, 0, 1}

\* The action at index k of recording r as an object: id names it, context
\* refers to its context object.
ActionObject(a, r, k) ==
    [id |-> <<r, k>>, type |-> a.type, subtype |-> a.subtype, x |-> a.x,
     timestamp |-> a.timestamp, context |-> <<r, k>>]

\* A variant of the next definition that rebuilds the event of a keyboard
\* action from its timestamp alone.
varyActionRebuilt(action, noise) ==
    CASE action.type = "mouse" -> [action EXCEPT !.x = @ + noise]
      [] action.type = "keyboard" ->
           [action EXCEPT !.subtype = "none", !.timestamp = @ + noise]
      [] OTHER -> action

\* varyActions, for one action: a copy `{ ...action }` whose event is
\* replaced by a copy with the coordinates (mouse) or the timestamp
\* (keyboard) moved; the copy refers to the context object of the action.
varyAction(action, noise) ==
    CASE action.type = "mouse" -> [action EXCEPT !.x = @ + noise]
      [] action.type = "keyboard" -> [action EXCEPT !.timestamp = @ + noise]
      [] OTHER -> action

\* varyActions, case 'system': `variedAction.context.systemState = {...}`
\* assigns to the context object the copy refers to.
variedContexts(acts, noise) ==
    [ref \in DOMAIN contexts |->
        IF \E k \in DOMAIN acts :
               /\ acts[k].type = "system" /\ acts[k].context = ref
               /\ contexts[ref].systemState # <<>>
        THEN LET k == CHOOSE k \in DOMAIN acts : acts[k].context = ref
             IN  [systemState |-> <<contexts[ref].systemState[1] + noise[k]>>]
        ELSE contexts[ref]]

\* createVariation(task), task being the recording at index r; noise holds
\* the random draw for each action.
CreateVariation(r, noise) ==
    /\ generatorCalls < MaxGeneratorCalls
    /\ generatorCalls' = generatorCalls + 1
    /\ r \in DOMAIN recordings
    /\ noise \in [DOMAIN recordings[r] -> Noise]
    /\ synthetic' =
           <<[kind |-> "variation", of |-> <<r>>,
              actions |-> [k \in DOMAIN recordings[r] |->
                              varyAction(recordings[r][k], noise[k])]]>>
    /\ contexts' = variedContexts(recordings[r], noise)
    /\ UNCHANGED <<recordings, original, pvars, rvars, evars, mvars>>

\* task.actions.slice(startIndex, startIndex + segmentSize)
slice(acts, startIndex, segmentSize) ==
    SubSeq(acts, startIndex + 1, Min(Len(acts), startIndex + segmentSize))

\* A variant of the next definition that numbers every segment from 0.
normalizeActionTimestampsFromZero(acts, existingActions) ==
    [k \in DOMAIN acts |-> [acts[k] EXCEPT !.timestamp = (k - 1) * 100]]

\* normalizeActionTimestamps: copies of the actions, 100 apart from the
\* greatest timestamp among the existing actions (from 0 without any).
normalizeActionTimestamps(acts, existingActions) ==
    LET lastTimestamp ==
            IF Len(existingActions) > 0
            THEN SeqMax([k \in DOMAIN existingActions |->
                            existingActions[k].timestamp])
            ELSE 0
    IN  [k \in DOMAIN acts |->
            [acts[k] EXCEPT !.timestamp = lastTimestamp + (k - 1) * 100]]

\* mergedActions.sort by timestamp: ascending, actions of the same timestamp
\* in the order they had.
sortByTimestamp(seq) ==
    LET Rank(i) == Cardinality({j \in DOMAIN seq :
                       \/ seq[j].timestamp < seq[i].timestamp
                       \/ seq[j].timestamp = seq[i].timestamp /\ j < i})
    IN  [r \in DOMAIN seq |-> seq[CHOOSE i \in DOMAIN seq : Rank(i) = r - 1]]

\* The forEach of mergeTasks from task r on; picks[r] is the pair of
\* startIndex and segmentSize drawn for task r.
RECURSIVE mergeSegments(_, _, _)
mergeSegments(r, picks, mergedActions) ==
    IF r > Len(recordings) THEN mergedActions
    ELSE mergeSegments(r + 1, picks,
             mergedActions \o normalizeActionTimestamps(
                 slice(recordings[r], picks[r][1], picks[r][2]), mergedActions))

\* A variant of the next definition in which startIndex is drawn over the
\* whole task, floor(random * len).
PicksOverWholeTask(len) ==
    {<<0, 0>>} \cup
    {<<startIndex, segmentSize>> \in (0..len) \X (0..len) :
        segmentSize < len /\ startIndex < len}

\* The draws Math.random() allows for a task of len actions: segmentSize is
\* floor(random * len), startIndex is floor(random * (len - segmentSize)).
Picks(len) ==
    {<<0, 0>>} \cup
    {<<startIndex, segmentSize>> \in (0..len) \X (0..len) :
        segmentSize < len /\ startIndex < len - segmentSize}

\* mergeTasks(tasks), tasks being all the recordings.
MergeTasks(picks) ==
    /\ generatorCalls < MaxGeneratorCalls
    /\ generatorCalls' = generatorCalls + 1
    /\ Len(recordings) > 0
    /\ \A r \in DOMAIN picks :
          picks[r] \in Picks(IF r \in DOMAIN recordings THEN Len(recordings[r])
                             ELSE 0)
    /\ synthetic' =
           <<[kind |-> "merged", of |-> [r \in DOMAIN recordings |-> r],
              \* startIndex and segmentSize as drawn for each task
              drawn |-> [r \in DOMAIN recordings |-> picks[r]],
              actions |-> sortByTimestamp(mergeSegments(1, picks, <<>>))]>>
    /\ UNCHANGED <<recordings, contexts, original, pvars, rvars, evars, mvars>>

\* No recording has been handed to the generator.
IdleGenerator ==
    /\ recordings = <<>>
    /\ contexts = <<>>
    /\ original = <<>>
    /\ synthetic = <<>>
    /\ generatorCalls = 0

\* The generator with the recordings it is to work on.
InitTaskGenerator ==
    /\ \E tasks \in SeqsUpTo(VarTasks, MaxRecordings) \ {<<>>} :
          /\ recordings =
                 [r \in DOMAIN tasks |->
                     [k \in DOMAIN tasks[r] |-> ActionObject(tasks[r][k], r, k)]]
          /\ contexts =
                 [ref \in {<<r, k>> : r \in DOMAIN tasks, k \in 1..MaxVarLen} |->
                     IF ref[2] \in DOMAIN tasks[ref[1]]
                     THEN [systemState |-> tasks[ref[1]][ref[2]].systemState]
                     ELSE [systemState |-> <<>>]]
    /\ original = contexts
    /\ synthetic = <<>>
    /\ generatorCalls = 0

NextTaskGenerator ==
    \/ \E r \in 1..MaxRecordings, noise \in SeqsUpTo(Noise, MaxVarLen) :
           CreateVariation(r, noise)
    \/ \E picks \in [1..MaxRecordings -> (0..MaxVarLen) \X (0..MaxVarLen)] :
           MergeTasks(picks)

\* The recordings handed to generateFromMultipleTasks: up to MaxSources
\* tasks of up to MaxSourceLen actions.  mergeTasks reads of an action its
\* place in the task and event.timestamp: the tasks alternate between the
\* mouse action (timestamp 0) and the keyboard action (timestamp 100),
\* starting with either, so that their timestamps rise and fall.
MergeActions ==
    <<CHOOSE a \in VarActions : a.type = "mouse",
      CHOOSE a \in VarActions : a.type = "keyboard">>
MergeTasksOf ==
    {[k \in 1..len |-> MergeActions[((k + first) % 2) + 1]] :
        len \in 0..MaxSourceLen, first \in {0, 1}}
MergeSources == SeqsUpTo(MergeTasksOf, MaxSources) \ {<<>>}

InitMergeSources ==
    /\ \E tasks \in MergeSources :
          /\ recordings =
                 [r \in DOMAIN tasks |->
                     [k \in DOMAIN tasks[r] |-> ActionObject(tasks[r][k], r, k)]]
          /\ contexts =
                 [ref \in {<<r, k>> : r \in DOMAIN tasks, k \in 1..MaxSourceLen} |->
                     [systemState |-> <<>>]]
    /\ original = contexts
    /\ synthetic = <<>>
    /\ generatorCalls = 0

\* generateFromMultipleTasks(tasks, count = 1): mergeTasks is called count
\* times.
count == 1

NextMerge ==
    \E picks \in [1..MaxSources -> (0..MaxSourceLen) \X (0..MaxSourceLen)] :
        generatorCalls < count /\ MergeTasks(picks)

-----------------------------------------------------------------------------
(* MCPTranslator (src/src/lib/brick/mcp.ts)                                 *)
(*                                                                          *)
(* Strings are TLA+ strings, joined by \o as the template literals join     *)
(* them.  An object is a record that has exactly the properties the object  *)
(* has, so that `'target' in action.event` is "target" \in DOMAIN event.    *)

\* What reading a missing property gives, and what a template literal prints
\* for it.  No string of the inputs is spelled like this.
undefined == "undefined"

\* A string (or undefined) taken as a condition
Truthy(v) == v # undefined /\ v # ""

\* r.f and r?.f
Field(r, f) == IF f \in DOMAIN r THEN r[f] ELSE undefined

\* a || b
Or(a, b) == IF Truthy(a) THEN a ELSE b

\* The events of the actions handed to the translator.  The recorder's mouse
\* handler always records a target, the text undefined when the element has
\* none; its keyboard handler records the type of the DOM event ("keydown"),
\* "textInput" being a type other producers use; its window handler records
\* events without a system call.
MouseEvents ==
    { [type |-> "click",
       target |-> [element |-> "button", selector |-> "#save", text |-> "Save"]],
      [type |-> "click",
       target |-> [element |-> "input", selector |-> "#name", text |-> undefined]] }
KeyboardEvents ==
    { [type |-> "textInput", key |-> "a"],
      [type |-> "textInput", key |-> "b"],
      [type |-> "keydown", key |-> "a"] }
SystemEvents ==
    { [type |-> "systemCall",
       systemCall |-> [type |-> "file", module |-> "fs", function |-> "open"]],
      [type |-> "focus"] }
WindowTitles == {"", "A", "B"}
RecordedActions ==
    { [type |-> "mouse", event |-> e, context |-> [windowTitle |-> w]] :
          e \in MouseEvents, w \in WindowTitles }
    \cup { [type |-> "keyboard", event |-> e, context |-> [windowTitle |-> w]] :
          e \in KeyboardEvents, w \in WindowTitles }
    \cup { [type |-> "system", event |-> e, context |-> [windowTitle |-> w]] :
          e \in SystemEvents, w \in WindowTitles }

\* The instruction the loop of translateToInstructions pushes when the window
\* title changes (lines 31-38), if it pushes one
focusInstructionForEveryTitle(action, currentContext) ==
    IF Truthy(Field(action.context, "windowTitle"))
    THEN <<[type |-> "system",
            description |-> "Focus window: " \o action.context.windowTitle,
            context |-> action.context.windowTitle]>>
    ELSE <<>>
focusInstruction(action, currentContext) ==
    IF /\ Truthy(Field(action.context, "windowTitle"))
       /\ action.context.windowTitle # currentContext
    THEN <<[type |-> "system",
            description |-> "Focus window: " \o action.context.windowTitle,
            context |-> action.context.windowTitle]>>
    ELSE <<>>

\* The instruction the switch of translateToInstructions pushes for an action
\* (lines 40-74), if it pushes one
actionInstruction(action, currentContext) ==
    CASE action.type = "mouse" ->
           IF "target" \in DOMAIN action.event
           THEN <<[type |-> "click",
                   target |-> Or(Field(action.event.target, "text"),
                                 Field(action.event.target, "element")),
                   selector |-> Field(action.event.target, "selector"),
                   description |->
                       "Click " \o Or(Field(action.event.target, "text"),
                                      Field(action.event.target, "element")),
                   context |-> currentContext]>>
           ELSE <<>>
      [] action.type = "keyboard" ->
           IF "key" \in DOMAIN action.event /\ action.event.type = "textInput"
           THEN <<[type |-> "type",
                   value |-> action.event.key,
                   description |-> "Type \"" \o action.event.key \o "\"",
                   context |-> currentContext]>>
           ELSE <<>>
      [] action.type = "system" ->
           IF "systemCall" \in DOMAIN action.event
           THEN <<[type |-> "system",
                   systemCall |-> action.event.systemCall,
                   description |->
                       "Execute system call: " \o action.event.systemCall.type
                           \o " - " \o action.event.systemCall.function,
                   context |-> currentContext]>>
           ELSE <<>>
      [] OTHER -> <<>>

\* The loop of translateToInstructions, from action i on: the instructions
\* pushed so far, and for each of them the action whose iteration pushed it.
RECURSIVE translateLoop(_, _, _, _, _)
translateLoop(acts, i, pushed, by, currentContext) ==
    IF i > Len(acts)
    THEN [instructions |-> pushed, origin |-> by]
    ELSE LET focus == focusInstruction(acts[i], currentContext)
             context == IF focus = <<>> THEN currentContext
                        ELSE acts[i].context.windowTitle
             own == actionInstruction(acts[i], context)
         IN  translateLoop(acts, i + 1, pushed \o focus \o own,
                           by \o [k \in DOMAIN focus |-> i]
                              \o [k \in DOMAIN own |-> i],
                           context)

\* The merged instruction optimizeInstructions pushes for the text gathered
typeInstruction(currentTextInput, currentContext) ==
    [type |-> "type",
     value |-> currentTextInput,
     description |-> "Type \"" \o currentTextInput \o "\"",
     context |-> currentContext]

\* currentTextInput += instruction.value || ''
gatherReplacing(currentTextInput, instruction) ==
    Or(Field(instruction, "value"), "")
gather(currentTextInput, instruction) ==
    currentTextInput \o Or(Field(instruction, "value"), "")

\* The loop of optimizeInstructions, from instruction i on
RECURSIVE optimizeLoop(_, _, _, _, _)
optimizeLoop(instrs, i, optimized, currentTextInput, currentContext) ==
    IF i > Len(instrs)
    THEN IF currentTextInput # ""
         THEN Append(optimized, typeInstruction(currentTextInput, currentContext))
         ELSE optimized
    ELSE IF instrs[i].type = "type" /\ Field(instrs[i], "context") = currentContext
         THEN optimizeLoop(instrs, i + 1, optimized,
                           gather(currentTextInput, instrs[i]), currentContext)
         ELSE optimizeLoop(instrs, i + 1,
                  Append(IF currentTextInput # ""
                         THEN Append(optimized,
                                     typeInstruction(currentTextInput,
                                                     currentContext))
                         ELSE optimized,
                         instrs[i]),
                  "",
                  Or(Field(instrs[i], "context"), currentContext))

\* optimizeInstructions
optimizeInstructionsNothingMerged(instrs) == instrs
optimizeInstructions(instrs) == optimizeLoop(instrs, 1, <<>>, "", "")

\* translateToInstructions
translateToInstructions(acts) ==
    optimizeInstructions(translateLoop(acts, 1, <<>>, <<>>, "").instructions)

\* generateLLMPrompt.  The prompt is the sequence of its paragraphs, each the
\* sequence of its lines: a line ends with "\n" and a paragraph with one more
\* "\n", as the code writes them.  The first paragraph is the heading, and the
\* paragraph of forEach's index k is the one after it.
promptStepFromZero(instruction, index) ==
    <<ToString(index) \o ". " \o instruction.description>>
    \o (IF Truthy(Field(instruction, "context"))
        THEN <<"   Context: " \o instruction.context>> ELSE <<>>)
    \o (IF Truthy(Field(instruction, "selector"))
        THEN <<"   Target: " \o instruction.selector>> ELSE <<>>)
promptStep(instruction, index) ==
    <<ToString(index + 1) \o ". " \o instruction.description>>
    \o (IF Truthy(Field(instruction, "context"))
        THEN <<"   Context: " \o instruction.context>> ELSE <<>>)
    \o (IF Truthy(Field(instruction, "selector"))
        THEN <<"   Target: " \o instruction.selector>> ELSE <<>>)
generateLLMPrompt(instrs) ==
    <<<<"To complete this task, follow these steps:">>>>
    \o [k \in DOMAIN instrs |-> promptStep(instrs[k], k - 1)]

\* generateExecutableCode.  The script is the sequence of its lines.
\* JSON.stringify of the parameters of a call that has none is undefined.
codeLine(instruction) ==
    CASE instruction.type = "click" ->
           <<"  await click('" \o Field(instruction, "selector") \o "');">>
      [] instruction.type = "type" ->
           <<"  await type('" \o Field(instruction, "value") \o "');">>
      [] instruction.type = "system" ->
           IF "systemCall" \in DOMAIN instruction
           THEN <<"  await executeSystemCall('" \o instruction.systemCall.type
                    \o "', " \o Field(instruction.systemCall, "parameters")
                    \o ");">>
           ELSE <<>>
      [] instruction.type = "wait" -> <<"  await wait(1000);">>
      [] OTHER -> <<>>
generateExecutableCode(instrs) ==
    <<"async function executeTask() {">>
    \o Concat([k \in DOMAIN instrs |-> codeLine(instrs[k])])
    \o <<"}">>

\* handleStopRecording hands the recorded actions to translateToInstructions,
\* then the instructions to generateLLMPrompt and to generateExecutableCode.
TranslateToInstructions ==
    /\ translator = "recorded"
    /\ emitted' = translateLoop(recorded, 1, <<>>, <<>>, "").instructions
    /\ origin' = translateLoop(recorded, 1, <<>>, <<>>, "").origin
    /\ instructions' = translateToInstructions(recorded)
    /\ translator' = "translated"
    /\ UNCHANGED <<recorded, llmPrompt, code, pvars, rvars, evars, tvars>>

GenerateLLMPrompt ==
    /\ translator = "translated"
    /\ llmPrompt' = generateLLMPrompt(instructions)
    /\ translator' = "prompted"
    /\ UNCHANGED <<recorded, emitted, origin, instructions, code,
                   pvars, rvars, evars, tvars>>

GenerateExecutableCode ==
    /\ translator = "prompted"
    /\ code' = generateExecutableCode(instructions)
    /\ translator' = "coded"
    /\ UNCHANGED <<recorded, emitted, origin, instructions, llmPrompt,
                   pvars, rvars, evars, tvars>>

\* Nothing has been handed to the translator.
IdleTranslator ==
    /\ recorded = <<>>
    /\ emitted = <<>>
    /\ origin = <<>>
    /\ instructions = <<>>
    /\ llmPrompt = <<>>
    /\ code = <<>>
    /\ translator = "idle"

\* The translator with the actions it is to translate.
InitTranslator ==
    /\ recorded \in SeqsUpTo(RecordedActions, MaxRecorded)
    /\ emitted = <<>>
    /\ origin = <<>>
    /\ instructions = <<>>
    /\ llmPrompt = <<>>
    /\ code = <<>>
    /\ translator = "recorded"

NextTranslator ==
    \/ TranslateToInstructions
    \/ GenerateLLMPrompt
    \/ GenerateExecutableCode

-----------------------------------------------------------------------------
Init ==
    InitPlayer /\ InitRecorder /\ IdleExtractor /\ IdleGenerator
        /\ IdleTranslator

SpecPlayer == Init /\ [][NextPlayer]_vars

\* The player under an event loop that runs every continuation that is ready
\* and every timer that has expired: the dispatch in flight settles, the
\* sleeping loop wakes.  The recordings loaded are made of a mouse action
\* that is dispatched, a keyboard action, whose dispatch throws, and a later
\* system action, before which the loop sleeps.
PlaybackActions ==
    {a \in PlayerActions :
        \/ a.type = "mouse" /\ ~ExecuteMouseActionThrows(a)
        \/ a.type = "keyboard"
        \/ a.type = "system" /\ a.call \in systemCallHandlers}

NextPlayback ==
    \/ \E rec \in SeqsUpTo(PlaybackActions, MaxLen) : Load(rec)
    \/ Play
    \/ Stop
    \/ \E i \in 1..MaxCalls : DispatchSettled(i)
    \/ \E i \in 1..MaxCalls : TimerFired(i)

SpecPlayerFair ==
    /\ Init /\ [][NextPlayback]_vars
    /\ \A i \in 1..MaxCalls :
          WF_vars(DispatchSettled(i)) /\ WF_vars(TimerFired(i))

SpecRecorder == Init /\ [][NextRecorder]_vars

InitColdStart ==
    InitPlayer /\ InitRecorder /\ InitExtractor /\ IdleGenerator
        /\ IdleTranslator

SpecExtractor == InitColdStart /\ [][NextExtractor]_vars

InitSynthesizer ==
    InitPlayer /\ InitRecorder /\ InitGenerator /\ IdleGenerator
        /\ IdleTranslator

SpecSynthesizer == InitSynthesizer /\ [][NextSynthesizer]_vars

SpecFeedback == Init /\ [][NextFeedback]_vars

InitColdStartFailure ==
    InitPlayer /\ InitRecorder /\ InitBrokenStore /\ IdleGenerator
        /\ IdleTranslator

SpecColdStartFailure == InitColdStartFailure /\ [][NextColdStart]_vars

InitVariation ==
    InitPlayer /\ InitRecorder /\ IdleExtractor /\ InitTaskGenerator
        /\ IdleTranslator

SpecVariation == InitVariation /\ [][NextTaskGenerator]_vars

InitMerge ==
    InitPlayer /\ InitRecorder /\ IdleExtractor /\ InitMergeSources
        /\ IdleTranslator

SpecMerge == InitMerge /\ [][NextMerge]_vars

InitTranslation ==
    InitPlayer /\ InitRecorder /\ IdleExtractor /\ IdleGenerator
        /\ InitTranslator

SpecTranslator == InitTranslation /\ [][NextTranslator]_vars

-----------------------------------------------------------------------------
(* Properties of the replay engine *)

RunIds == DOMAIN runs

\* The indices a run dispatched: the calls of executeAction that returned
\* normally or are still in flight.
Dispatched(r) ==
    IF r.threw THEN SubSeq(r.log, 1, Len(r.log) - 1) ELSE r.log

\* No mouse action of the loaded sequence lacks a usable selector.
AllTargetsFound ==
    \A k \in DOMAIN actions : ~ExecuteMouseActionThrows(actions[k])

\* C1: a play() run that neither stop() nor load() interrupted, over a
\* sequence of N mouse, keyboard and system actions whose targets resolve,
\* has dispatched the actions 0..N-1, each once and in index order, when it
\* returns.
C1_AllDispatchedInOrder ==
    \A i \in RunIds :
        (~Live(runs[i]) /\ ~runs[i].disturbed /\ ~runs[i].reloaded
             /\ AllTargetsFound)
            => Dispatched(runs[i]) = [k \in 1..Len(actions) |-> k - 1]

\* C2: at most one playback loop is live and at most one dispatch is in
\* flight.
C2_SingleLoop ==
    /\ Cardinality({i \in RunIds : Live(runs[i])}) <= 1
    /\ Cardinality({i \in RunIds : runs[i].pc = "dispatch"}) <= 1

\* C3: once a dispatch of a run has failed, the run calls executeAction no
\* more, and the step in which the run takes notice of the failure ends the
\* run and leaves the engine Idle.
C3_FailFast ==
    [][\A i \in RunIds :
          runs[i].threw =>
              /\ runs'[i].log = runs[i].log
              /\ runs'[i].threw
              /\ (Live(runs[i]) /\ runs'[i].pc # runs[i].pc)
                    => (runs'[i].pc = "done" /\ ~isPlaying')]_vars

\* C3 witness: a run has ended on the failure of its first dispatch, with a
\* later action of the sequence left undispatched and the engine Idle.
C3_Witness ==
    \E i \in RunIds :
        /\ runs[i].threw /\ ~Live(runs[i])
        /\ runs[i].log = <<0>>
        /\ Len(actions) > 1
        /\ ~isPlaying

\* C4: a play() call whose dispatch failed ends rejected with that error.
C4_ErrorSurfaced ==
    \A i \in RunIds :
        (runs[i].threw /\ ~Live(runs[i])) => runs[i].outcome = "rejected"

\* C5: a run that was live when stop() was called begins no dispatch after
\* that call.
C5_NoDispatchAfterStop ==
    [][\A i \in RunIds : runs[i].stopped => runs'[i].log = runs[i].log]_vars

-----------------------------------------------------------------------------
(* Properties of the recorder *)

\* The recorder's buffer: the array this.actions refers to.
Buffer == heap[recActions]

\* C6: the buffer holds the actions in the order their signals arrived, one
\* action per signal: ids (arrival numbers) increase along the buffer.
C6_ArrivalOrder ==
    \A k, l \in DOMAIN Buffer : k < l => Buffer[k].id < Buffer[l].id

\* C7: the sequence stop() returned stays as it was when stop() returned.
C7_SnapshotImmutable ==
    \A ret \in returned : heap[ret.ref] = ret.snapshot

\* C8: every action of the buffer comes from a signal received after the
\* latest start(), with its timestamp relative to that start time.
C8_FreshSession ==
    \A k \in DOMAIN Buffer :
        /\ Buffer[k].session = session
        /\ Buffer[k].timestamp = Buffer[k].at - startTime

\* C9: event.timestamp is non-decreasing across consecutive actions of the
\* buffer.
C9_TimestampsMonotone ==
    \A k \in DOMAIN Buffer :
        k + 1 \in DOMAIN Buffer => Buffer[k].timestamp <= Buffer[k + 1].timestamp

-----------------------------------------------------------------------------
(* Properties of the pattern extractor *)

\* The stored recording at index k was distilled into a Pattern.
HasPattern(k) == \E p \in successPatterns : p.id = k

\* The three predicates: no action flagged as error-indicating; the
\* efficiency score passes its threshold; the cleanliness score passes its
\* threshold.
Completion(task) == \A k \in DOMAIN task : ~isErrorAction(task[k])
Efficiency(task) == GreaterThan(calculateExecutionEfficiency(task), 7, 10)
Cleanliness(task) == GreaterThan(calculateCleanlinessScore(task), 8, 10)

AtLeast(f, p, q) == f.den # 0 /\ f.num * q >= p * f.den

\* C11: the efficiency threshold is inclusive. After the scan, a stored
\* recording with no error action and cleanliness at least 0.8 has a Pattern
\* if and only if its efficiency optimalTime/totalTime is at least 0.7; so
\* one at exactly 0.7 has a Pattern and one below has none.
C11_EfficiencyInclusive ==
    scan = "done" =>
        \A k \in DOMAIN db :
            (/\ Len(db[k]) > 0
             /\ Completion(db[k])
             /\ AtLeast(calculateCleanlinessScore(db[k]), 8, 10))
                => (HasPattern(k)
                      <=> AtLeast(calculateExecutionEfficiency(db[k]), 7, 10))

\* The recording has a system action whose system-call carries an error.
HasErrorPayload(task) ==
    \E j \in DOMAIN task : task[j].type = "system" /\ task[j].error

\* C12: a stored recording with a system action whose system-call carries an
\* error payload has no Pattern in the store, whatever its timestamps and
\* its redundancy.
C12_ErrorExcludes ==
    \A k \in DOMAIN db : HasErrorPayload(db[k]) => ~HasPattern(k)

\* C12 witness: the scan is over, and a recording that holds an error action
\* and otherwise passes efficiency and cleanliness has no Pattern.
C12_Witness ==
    /\ scan = "done"
    /\ \E k \in DOMAIN db :
          /\ HasErrorPayload(db[k])
          /\ Efficiency(db[k]) /\ Cleanliness(db[k])
          /\ ~HasPattern(k)

-----------------------------------------------------------------------------
(* Properties of the synthesizer *)

\* tag contains name as a run of characters, letter case aside.
TagContains(tag, name) ==
    \E i \in 0..(Len(tag) - Len(name)) :
        \A j \in 1..Len(name) : LowerChar(tag[i + j]) = LowerChar(name[j])

\* The patterns of a store that are relevant to the hints, as section 4.5
\* defines relevance.
Relevant(store, hints) ==
    IF hints = NoOs THEN store
    ELSE {q \in store :
             \E t \in DOMAIN q.environment : TagContains(q.environment[t], hints)}

\* The least integer that is no less than level * n.
CeilOf(level, n) == (level.num * n + level.den - 1) \div level.den

\* C13: generateFutureTask selects max(1, ceil(complexityLevel * R))
\* patterns, R being the number of patterns relevant to the hints, whenever
\* R >= 1.
C13_SelectionCount ==
    \A g \in {generated[i] : i \in DOMAIN generated} :
        LET R == Cardinality(Relevant(g.store, g.hints))
        IN  R >= 1 => Len(g.selected) = Max(1, CeilOf(g.level, R))

\* C14: with complexityLevel 1 and K >= 1 relevant patterns, all K are
\* used; with a complexityLevel above 0 and K >= 1, at least one is.
C14_AllAtOneSomeAboveZero ==
    \A g \in {generated[i] : i \in DOMAIN generated} :
        LET relevant == Relevant(g.store, g.hints)
        IN  Cardinality(relevant) >= 1 =>
                /\ g.level = Frac(1, 1) =>
                       {g.selected[i] : i \in DOMAIN g.selected}
                           = {q.id : q \in relevant}
                /\ g.level.num > 0 => Len(g.selected) >= 1

\* C14 witness: a call with complexityLevel 1 on a store of two relevant
\* patterns used both.
C14_Witness ==
    /\ generated # <<>>
    /\ generated[1].level = Frac(1, 1)
    /\ Cardinality(Relevant(generated[1].store, generated[1].hints)) = 2
    /\ Len(generated[1].selected) = 2

\* C15: with a platform name in the hints, every pattern used has an
\* environment tag that contains the name, letter case aside; without one,
\* every stored pattern is eligible: the patterns used are as many as the
\* whole store allows, and no pattern left out scores higher than one used.
C15_RelevanceFilter ==
    \A g \in {generated[i] : i \in DOMAIN generated} :
        LET used == {q \in g.store : \E i \in DOMAIN g.selected : g.selected[i] = q.id}
            total == Cardinality(g.store)
        IN  IF g.hints # NoOs
            THEN \A q \in used :
                     \E t \in DOMAIN q.environment :
                         TagContains(q.environment[t], g.hints)
            ELSE /\ Cardinality(used)
                      = Min(total, Max(1, (g.level.num * total) \div g.level.den))
                 /\ \A q \in g.store \ used :
                        \A u \in used : compareScores(u, q) <= 0

\* C15 witness: a call with the platform name MAC on a store that holds a
\* pattern recorded on Mac and one recorded on Linux used the former only.
C15_Witness ==
    /\ generated # <<>>
    /\ generated[1].hints = <<"M", "A", "C">>
    /\ \E q \in generated[1].store : q.environment[1] = <<"M", "a", "c">>
    /\ \E q \in generated[1].store : q.environment[1] = <<"L", "i", "n", "u", "x">>
    /\ Len(generated[1].selected) >= 1

\* The number of times name occurs in names.
Occurrences(name, names) ==
    Cardinality({i \in DOMAIN names : names[i] = name})

\* C18: a call of recordFeedback appends its feedback to the history, which
\* grows by exactly 1; on success the weight of every name rises by 1 for
\* each time it is listed in emergentPatterns and by 0.1 for each time it is
\* listed in adaptations (weights are counted in tenths), and a name listed
\* in neither keeps its weight, or stays without one; on failure the
\* knowledge map stays as it is. Nothing else changes the map.
C18_FeedbackFolded ==
    [][/\ emergentKnowledge' # emergentKnowledge
            => learningHistory' # learningHistory
       /\ learningHistory' # learningHistory =>
            LET f == learningHistory'[Len(learningHistory')]
                listed == {f.emergentPatterns[i] : i \in DOMAIN f.emergentPatterns}
                            \cup {f.adaptations[i] : i \in DOMAIN f.adaptations}
            IN  /\ Len(learningHistory') = Len(learningHistory) + 1
                /\ SubSeq(learningHistory', 1, Len(learningHistory))
                      = learningHistory
                /\ f.success =>
                      /\ DOMAIN emergentKnowledge'
                            = DOMAIN emergentKnowledge \cup listed
                      /\ \A n \in DOMAIN emergentKnowledge' :
                            emergentKnowledge'[n]
                              = Weight(emergentKnowledge, n)
                                  + 10 * Occurrences(n, f.emergentPatterns)
                                  + Occurrences(n, f.adaptations)
                /\ ~f.success => emergentKnowledge' = emergentKnowledge]_vars

\* C18 witness: after a successful feedback that lists adaptive-timing
\* twice as emergent pattern and once as adaptation, and minimal-clicks once
\* as adaptation, and a failed feedback after it, the weights are 2.1 and
\* 0.1.
C18_Witness ==
    /\ Len(learningHistory) = 2
    /\ learningHistory[1].success /\ ~learningHistory[2].success
    /\ learningHistory[1].emergentPatterns
          = <<"adaptive-timing", "adaptive-timing">>
    /\ learningHistory[1].adaptations = <<"minimal-clicks", "adaptive-timing">>
    /\ learningHistory[2].emergentPatterns = <<"adaptive-timing">>
    /\ DOMAIN emergentKnowledge = {"adaptive-timing", "minimal-clicks"}
    /\ emergentKnowledge["adaptive-timing"] = 21
    /\ emergentKnowledge["minimal-clicks"] = 1

NoEqualScores(store, hints) ==
    \A q1, q2 \in Relevant(store, hints) :
        q1 # q2 => compareScores(q1, q2) # 0

-----------------------------------------------------------------------------
(* Properties of the variation generator *)

\* C16: the recording createVariation returns has as many actions as its
\* base, the same actions at the same indices, and at every index the type
\* and the event subtype of the base.
C16_ShapePreserved ==
    \A s \in {synthetic[i] : i \in DOMAIN synthetic} :
        s.kind = "variation" =>
            LET base == recordings[s.of[1]]
            IN  /\ Len(s.actions) = Len(base)
                /\ \A k \in DOMAIN base :
                      /\ s.actions[k].id = base[k].id
                      /\ s.actions[k].type = base[k].type
                      /\ s.actions[k].subtype = base[k].subtype

\* C16 witness: the variation of a recording of a mouse and a keyboard
\* action, the coordinate of the first and the timestamp of the second
\* moved.
C16_Witness ==
    /\ synthetic # <<>>
    /\ synthetic[1].kind = "variation"
    /\ Len(synthetic[1].actions) = 2
    /\ synthetic[1].actions[1].type = "mouse"
    /\ synthetic[1].actions[2].type = "keyboard"
    /\ synthetic[1].actions[1].x # recordings[synthetic[1].of[1]][1].x
    /\ synthetic[1].actions[2].timestamp
          # recordings[synthetic[1].of[1]][2].timestamp

\* C17: createVariation and mergeTasks leave the recordings they are given
\* as they were created: the context of every action, its system-state
\* metrics included, is what it was.
C17_InputsUnchanged ==
    \A ref \in DOMAIN contexts : contexts[ref] = original[ref]

-----------------------------------------------------------------------------
(* The instruction translator *)

\* translateToInstructions has returned.
Translated == translator \in {"translated", "prompted", "coded"}

\* An instruction the window-title branch pushed: a system instruction that
\* carries no system call.
IsFocus(instruction) ==
    instruction.type = "system" /\ "systemCall" \notin DOMAIN instruction

\* The instructions pushed for the actions themselves, in the order pushed
Own(instrs) == SelectSeq(instrs, LAMBDA instruction : ~IsFocus(instruction))

\* The instruction type the translator has for an action type
InstructionType(type) ==
    CASE type = "mouse" -> "click"
      [] type = "keyboard" -> "type"
      [] type = "system" -> "system"

\* C21: before coalescing, the instructions translateToInstructions has
\* pushed, the focus-window instructions aside, are one for each action, in
\* the order of the actions: a click for a mouse action, a type for a
\* keyboard action, a system instruction for a system action.
C21_OnePerAction ==
    Translated =>
        /\ Len(Own(emitted)) = Len(recorded)
        /\ \A k \in DOMAIN recorded :
              k \in DOMAIN Own(emitted) =>
                  Own(emitted)[k].type = InstructionType(recorded[k].type)


\* The places of a sequence of instructions where a run of adjacent type
\* instructions of one context begins
RunStarts(instrs) ==
    {k \in DOMAIN instrs :
        /\ instrs[k].type = "type"
        /\ \/ k = 1
           \/ instrs[k - 1].type # "type"
           \/ instrs[k - 1].context # instrs[k].context}

\* The type instructions of a sequence of instructions, in order
Typed(instrs) == SelectSeq(instrs, LAMBDA instruction : instruction.type = "type")

NonTyped(instrs) == SelectSeq(instrs, LAMBDA instruction : instruction.type # "type")

\* The text a sequence of instructions types before its first instruction of
\* another type, between one such instruction and the next, and after the
\* last: one string for each of these places, in order.
RECURSIVE TypedBetween(_)
TypedBetween(instrs) ==
    IF instrs = <<>> THEN <<"">>
    ELSE LET before == TypedBetween(SubSeq(instrs, 1, Len(instrs) - 1))
             last == instrs[Len(instrs)]
         IN  IF last.type = "type"
             THEN [before EXCEPT ![Len(before)] = @ \o last.value]
             ELSE Append(before, "")

\* C23: what translateToInstructions returns types the text that the
\* instructions pushed for the actions type, has their instructions of other
\* types unchanged and in their order, and types each piece of the text
\* between the same two of them.
C23_NothingLost ==
    Translated =>
        /\ TypedBetween(Typed(instructions)) = TypedBetween(Typed(emitted))
        /\ NonTyped(instructions) = NonTyped(emitted)
        /\ TypedBetween(instructions) = TypedBetween(emitted)

\* C23 witness: "b", "a" and a click were pushed in this order, and "ba" and
\* the click are returned.
C23_Witness ==
    /\ Translated
    /\ Len(emitted) = 3
    /\ emitted[1].type = "type" /\ emitted[1].value = "b"
    /\ emitted[2].type = "type" /\ emitted[2].value = "a"
    /\ emitted[3].type = "click"
    /\ Len(instructions) = 2
    /\ instructions[1].value = "ba"
    /\ instructions[2] = emitted[3]


\* Every action handed to the translator is a mouse action with a target.
AllClicks ==
    \A k \in DOMAIN recorded :
        recorded[k].type = "mouse" /\ "target" \in DOMAIN recorded[k].event

\* The text of the target of a mouse action: its text, or the name of its
\* element when it has no text
TargetText(action) ==
    IF action.event.target.text # undefined /\ action.event.target.text # ""
    THEN action.event.target.text
    ELSE action.event.target.element

\* The numbered steps of a prompt: the first lines of its paragraphs, the
\* heading aside
Steps(prompt) == [j \in 1..(Len(prompt) - 1) |-> prompt[j + 1][1]]

\* Step j of a prompt tells to focus a window.
IsFocusStep(prompt, j) ==
    \E w \in WindowTitles :
        Steps(prompt)[j] = ToString(j) \o ". Focus window: " \o w

\* The lines of a script that call click, in order
ClickCalls(script) ==
    SelectSeq(script,
              LAMBDA line : \E e \in MouseEvents :
                  line = "  await click('" \o e.target.selector \o "');")

\* The script calls click once for each action, in the order of the actions,
\* with the selector of its target.
OneClickCallPerAction ==
    /\ Len(ClickCalls(code)) = Len(recorded)
    /\ \A k \in DOMAIN recorded :
          k \in DOMAIN ClickCalls(code) =>
              ClickCalls(code)[k]
                  = "  await click('" \o recorded[k].event.target.selector \o "');"

\* C24 as stated: n mouse actions with targets give a prompt of n numbered
\* steps, step k reading "Click" and the target text of action k, and a
\* script of n click calls in the order of the actions.
C24_StepPerClick ==
    (translator = "coded" /\ AllClicks) =>
        /\ Len(Steps(llmPrompt)) = Len(recorded)
        /\ \A k \in DOMAIN recorded :
              k \in DOMAIN Steps(llmPrompt) =>
                  Steps(llmPrompt)[k]
                      = ToString(k) \o ". Click " \o TargetText(recorded[k])
        /\ OneClickCallPerAction

\* C24 as amended: n mouse actions with targets give a prompt of n numbered
\* steps and one more for each focus-window instruction inserted; the k-th
\* step that is not a focus-window step carries its number in the prompt and
\* reads "Click" and the target text of action k; the script has n click
\* calls in the order of the actions.
C24_StepPerClickAndFocus ==
    (translator = "coded" /\ AllClicks) =>
        LET steps == Steps(llmPrompt)
            clicks == {j \in DOMAIN steps : ~IsFocusStep(llmPrompt, j)}
            focuses == Len(SelectSeq(emitted, IsFocus))
        IN  /\ Len(steps) = Len(recorded) + focuses
            /\ Cardinality(clicks) = Len(recorded)
            /\ \A j \in clicks :
                  LET k == Cardinality({i \in clicks : i <= j})
                  IN  k \in DOMAIN recorded =>
                          steps[j] = ToString(j) \o ". Click "
                                         \o TargetText(recorded[k])
            /\ OneClickCallPerAction

\* C24 witness: two clicks in window A, the first on "Save" and the second
\* on an input without text, give the steps "1. Focus window: A",
\* "2. Click Save" and "3. Click input" and two click calls.
C24_Witness ==
    /\ translator = "coded"
    /\ AllClicks
    /\ Len(recorded) = 2
    /\ Steps(llmPrompt) = <<"1. Focus window: A", "2. Click Save", "3. Click input">>
    /\ ClickCalls(code) = <<"  await click('#save');", "  await click('#name');">>


\* The window title of action i of the recording, "" when it has none or
\* when there is no such action
Title(i) ==
    IF i \in DOMAIN recorded /\ Truthy(Field(recorded[i].context, "windowTitle"))
    THEN recorded[i].context.windowTitle
    ELSE ""

\* The window title of the last action before action i that has one, "" when
\* none has
RECURSIVE LastTitleBefore(_)
LastTitleBefore(i) ==
    IF i <= 1 THEN ""
    ELSE IF Title(i - 1) # "" THEN Title(i - 1) ELSE LastTitleBefore(i - 1)

\* The places in the pushed instructions of the focus-window instructions
\* pushed in the iteration of action i
FocusOf(i) == {j \in DOMAIN emitted : origin[j] = i /\ IsFocus(emitted[j])}

\* A focus-window instruction pushed for an action is for the window of the
\* action and comes right before the instruction of the action, if it has
\* one.
FocusComesFirst ==
    \A i \in DOMAIN recorded : \A j \in FocusOf(i) :
        /\ emitted[j].context = Title(i)
        /\ \A k \in DOMAIN emitted : (origin[k] = i /\ k # j) => k = j + 1

\* C25 as stated: a focus-window instruction is pushed right before the
\* instruction of action i exactly when the window title of action i is not
\* that of action i-1, the first action being preceded by no title (and an
\* action without a title having no window to focus).
C25_FocusOnChangeFromPrevious ==
    Translated =>
        /\ \A i \in DOMAIN recorded :
              Cardinality(FocusOf(i))
                  = (IF Title(i) # "" /\ Title(i) # Title(i - 1) THEN 1 ELSE 0)
        /\ FocusComesFirst

\* C25 as amended: a focus-window instruction is pushed right before the
\* instruction of action i exactly when action i has a window title and it
\* is not the title of the last action before it that has one, the first
\* action with a title counting as a change.
C25_FocusOnChangeFromLastTitle ==
    Translated =>
        /\ \A i \in DOMAIN recorded :
              Cardinality(FocusOf(i))
                  = (IF Title(i) # "" /\ Title(i) # LastTitleBefore(i)
                     THEN 1 ELSE 0)
        /\ FocusComesFirst

\* C25 witness: three actions, of window A, of window B and of window B
\* again; a focus-window instruction was pushed for the first and for the
\* second and none for the third.
C25_Witness ==
    /\ Translated
    /\ Len(recorded) = 3
    /\ Title(1) = "A" /\ Title(2) = "B" /\ Title(3) = "B"
    /\ Cardinality(FocusOf(1)) = 1
    /\ Cardinality(FocusOf(2)) = 1
    /\ FocusOf(3) = {}
    /\ Len(emitted) = 5

-----------------------------------------------------------------------------
(* The replay engine: calls that find it busy, delays, progress *)

\* C26: a play() called while the engine is Playing, or with nothing
\* loaded, leaves the cursor, the loaded sequence and the Playing/Idle state
\* as they were, starts no playback loop and dispatches nothing.
C26_IgnoredPlayChangesNothing ==
    [][ignored' =>
          /\ actions' = actions
          /\ currentIndex' = currentIndex
          /\ isPlaying' = isPlaying
          /\ runs' = runs]_vars

\* C26 witness: play() was called while the one playback loop there is had a
\* dispatch in flight.
C26_Witness ==
    /\ ignored
    /\ isPlaying
    /\ Len(runs) = 1
    /\ runs[1].pc = "dispatch"

\* C27: the first action a run dispatches after load(r) was called is r[0].
C27_LoadRestartsAtFirst ==
    [][\A i \in RunIds :
          (runs[i].reloaded /\ Live(runs[i]) /\ runs'[i].log # runs[i].log)
              => /\ runs'[i].log = Append(runs[i].log, 0)
                 /\ runs'[i].action = actions[1]]_vars

\* The system-call type of the action has no registered handler.
Unhandled(a) == a.type = "system" /\ a.call \notin systemCallHandlers

\* The run began with no other run live, and neither stop() nor load() was
\* called while it was live nor load() since: the loaded sequence is the one
\* it played, and no other loop has moved the cursor under it.
Uninterrupted(r) == r.alone /\ ~r.disturbed /\ ~r.reloaded

\* C28: in a run that nothing interrupts, the dispatch of a system action
\* without a registered handler does not fail; the run goes on with the next
\* action, the cursor past the system action, and ends only at the end of
\* the sequence or at a dispatch that fails, having dispatched every action
\* up to there in order.
C28_UnhandledSkipped ==
    \A i \in RunIds :
        Uninterrupted(runs[i]) =>
            LET r == runs[i]
                last == Len(r.log)
            IN  /\ r.log = [n \in 1..last |-> n - 1]
                /\ last <= Len(actions)
                /\ (r.threw /\ last \in DOMAIN actions) => ~Unhandled(actions[last])
                /\ (Live(r) /\ r.pc = "sleep") => currentIndex = last
                /\ (Live(r) /\ r.pc = "dispatch") => currentIndex = last - 1
                /\ ~Live(r) => (r.threw \/ last = Len(actions))

\* C28 witness: a run over a system action without a handler and a click has
\* returned, both actions dispatched.
C28_Witness ==
    \E i \in RunIds :
        /\ Uninterrupted(runs[i])
        /\ ~Live(runs[i]) /\ ~runs[i].threw
        /\ Len(actions) = 2
        /\ Unhandled(actions[1])
        /\ actions[2].type = "mouse"
        /\ runs[i].log = <<0, 1>>

\* max(0, t[k+1] - t[k]) for the 0-based indices k and k+1 of the loaded
\* sequence
Gap(k) ==
    IF actions[k + 2].timestamp - actions[k + 1].timestamp > 0
    THEN actions[k + 2].timestamp - actions[k + 1].timestamp
    ELSE 0

\* C29: in a run that nothing interrupts, the delay asked for after action k
\* is max(0, t[k+1] - t[k]): the run is suspended only after an action that
\* is not the last, for a positive delay, and it dispatches action k+1
\* without having suspended only when that maximum is 0.
C29_DelayIsGap ==
    \A i \in RunIds :
        (Uninterrupted(runs[i]) /\ Live(runs[i])) =>
            LET r == runs[i]
                k == r.log[Len(r.log)]
            IN  /\ r.wait >= 0
                /\ r.pc = "sleep" =>
                      /\ k + 1 < Len(actions)
                      /\ r.wait > 0
                      /\ r.wait = Gap(k)
                /\ (r.pc = "dispatch" /\ k > 0) => r.wait = Gap(k - 1)

\* C29 witness: a run over a click at 0 and a system action at 1 is
\* suspended after the click, for a delay of 1.
C29_Witness ==
    \E i \in RunIds :
        /\ Uninterrupted(runs[i])
        /\ runs[i].pc = "sleep"
        /\ runs[i].log = <<0>>
        /\ runs[i].wait = 1
        /\ actions[1].timestamp = 0 /\ actions[2].timestamp = 1

\* C30: the cursor is between 0 and the length of the loaded sequence, and
\* getProgress is between 0 and 100.
C30_CursorInRange ==
    /\ 0 <= currentIndex
    /\ currentIndex <= Len(actions)
    /\ 0 <= getProgress.num
    /\ getProgress.num <= 100 * getProgress.den

-----------------------------------------------------------------------------
(* BrickRecorder: dispose() *)

\* The buffers that exist keep their contents in this step (start() assigns a
\* new array and leaves the old ones as they are).
NothingAppended == \A r \in DOMAIN heap : heap'[r] = heap[r]

ProbesCancelled(m) ==
    ~m.processMonitor /\ ~m.serviceMonitor /\ ~m.guiUpdateInterval

\* C31: once dispose() has returned, the three periodic probes are cancelled
\* and the GUI-scrape collaborator is disposed, and no step appends an action
\* to a buffer of the recorder any more, neither the continuation of a handler
\* or probe that was suspended when dispose() ran nor a later input signal.
C31_NothingAfterDispose ==
    [][monitors.disposed =>
         /\ ProbesCancelled(monitors) /\ ProbesCancelled(monitors')
         /\ monitors'.disposed
         /\ NothingAppended]_vars

\* C39: start() after dispose() is rejected: a disposed recorder that is not
\* Recording does not enter Recording, and start() appends nothing.
C39_StartRejectedAfterDispose ==
    [][monitors.disposed /\ ~isRecording =>
         ~isRecording' /\ NothingAppended /\ recActions' = recActions]_vars

-----------------------------------------------------------------------------
(* TaskGenerator: mergeTasks *)

Merged == synthetic # <<>> /\ synthetic[1].kind = "merged"

\* The places in the returned recording of the actions taken from source r.
FromSource(r) ==
    {i \in DOMAIN synthetic[1].actions : synthetic[1].actions[i].id[1] = r}

\* The actions of the returned recording that come from source r, in the
\* order they have there, by their index in the source.
RECURSIVE TakenFrom(_, _)
TakenFrom(r, acts) ==
    IF acts = <<>> THEN <<>>
    ELSE (IF Head(acts).id[1] = r THEN <<Head(acts).id[2]>> ELSE <<>>)
             \o TakenFrom(r, Tail(acts))

\* C32: in the recording mergeTasks returns, the actions taken from each
\* source are one contiguous slice of the source in the source's order
\* (startIndex+1 .. startIndex+segmentSize, possibly empty), whatever was
\* drawn, and the slice ends at or before the end of the source.
C32_ContiguousSlices ==
    Merged =>
        \A r \in DOMAIN recordings :
            LET startIndex == synthetic[1].drawn[r][1]
                segmentSize == synthetic[1].drawn[r][2]
                taken == TakenFrom(r, synthetic[1].actions)
            IN  /\ startIndex + segmentSize <= Len(recordings[r])
                /\ Len(taken) = segmentSize
                /\ \A k \in DOMAIN taken : taken[k] = startIndex + k

\* Two sources gave a slice each: the first one action from its middle, the
\* second its first two actions.
C32_Witness ==
    /\ Merged
    /\ Len(recordings) = 2
    /\ synthetic[1].drawn[1] = <<1, 1>>
    /\ synthetic[1].drawn[2] = <<0, 2>>
    /\ Len(synthetic[1].actions) = 3

\* C37: the recording mergeTasks returns has non-decreasing timestamps;
\* consecutive actions of one segment are exactly 100 apart; every action of a
\* later source has a timestamp not smaller than every action of an earlier
\* source; and the segments stand in source order after the sort.
C37_MergedTimestamps ==
    Merged =>
        LET acts == synthetic[1].actions
        IN  /\ \A i, j \in DOMAIN acts :
                  i < j => acts[i].timestamp <= acts[j].timestamp
            /\ \A i, j \in DOMAIN acts :
                  acts[i].id[1] = acts[j].id[1] /\ acts[j].id[2] = acts[i].id[2] + 1
                      => acts[j].timestamp = acts[i].timestamp + 100
            /\ \A i, j \in DOMAIN acts :
                  acts[i].id[1] < acts[j].id[1]
                      => acts[i].timestamp <= acts[j].timestamp /\ i < j

\* Two segments of two actions each were merged; the second begins at the
\* timestamp the first ends with.
C37_Witness ==
    /\ Merged
    /\ Len(synthetic[1].actions) = 4
    /\ synthetic[1].actions[2].id[1] = 1
    /\ synthetic[1].actions[3].id[1] = 2
    /\ synthetic[1].actions[2].timestamp = synthetic[1].actions[3].timestamp

-----------------------------------------------------------------------------
(* TaskGenerator: createVariation *)

NonDecreasing(acts) ==
    \A k \in DOMAIN acts :
        k + 1 \in DOMAIN acts => acts[k].timestamp <= acts[k + 1].timestamp

\* C38: the variation of a base recording whose timestamps are non-decreasing
\* has non-decreasing timestamps as well, whatever noise was drawn for its
\* keyboard actions.
C38_VariationMonotone ==
    synthetic # <<>> /\ synthetic[1].kind = "variation"
        /\ NonDecreasing(recordings[synthetic[1].of[1]])
    => NonDecreasing(synthetic[1].actions)

-----------------------------------------------------------------------------
(* AbsoluteZeroGenerator: a cold-start scan that fails *)

StoredIds == {q.id : q \in successPatterns}

\* The recordings the loop had handled when it threw.
BeforeTheFailure ==
    {k \in DOMAIN db : \A j \in 1..k : "os" \in DOMAIN dbEnvironment[j]}

\* C33: a failure of the cold-start scan stays inside construction: when the
\* query rejected the store is empty, when distilling a recording threw the
\* store holds the pattern of every qualifying recording before that one, and
\* a call of generateFutureTask after the failure returns a recording whose
\* patterns are taken from that store (no action when the store is empty).
C33_ScanFailureContained ==
    /\ scan = "failed" => successPatterns = {}
    /\ scan = "thrown" =>
          StoredIds = {k \in BeforeTheFailure : hasPositiveFeedback(db[k])}
    /\ scan \in {"failed", "thrown"} /\ generated # <<>>
          /\ generated[1].store = successPatterns
       => /\ \A i \in DOMAIN generated[1].selected :
                generated[1].selected[i] \in StoredIds
          /\ successPatterns = {} => generated[1].actions = <<>>
          /\ successPatterns # {} /\ generated[1].hints = NoOs
                => generated[1].actions # <<>>

\* Distilling the second recording threw, the pattern of the first is in the
\* store, and generateFutureTask has returned a recording made from it.
C33_Witness ==
    /\ scan = "thrown"
    /\ StoredIds = {1}
    /\ Len(db) = 2
    /\ generated # <<>>
    /\ generated[1].store = successPatterns
    /\ generated[1].selected = <<1>>
    /\ Len(generated[1].actions) = 2

-----------------------------------------------------------------------------
(* AbsoluteZeroGenerator: the cleanliness threshold *)

\* C34: the cleanliness threshold is inclusive.  After the scan, a stored
\* recording with no error action whose efficiency passes has a Pattern if
\* and only if its share of non-redundant actions, 1 - redundant/total, is at
\* least 0.8: one at exactly 0.8 (1 repeated action among 5) has a Pattern
\* and one below has none.
C34_CleanlinessInclusive ==
    scan = "done" =>
        \A k \in DOMAIN db :
            (/\ Len(db[k]) > 0
             /\ Completion(db[k])
             /\ Efficiency(db[k]))
                => (HasPattern(k)
                      <=> AtLeast(calculateCleanlinessScore(db[k]), 8, 10))

-----------------------------------------------------------------------------
(* AbsoluteZeroGenerator: which patterns generateFutureTask uses *)

\* score(a) >= score(b) as JavaScript numbers: Infinity is at least
\* everything, a finite score is at least a finite score by the fractions.
ScoreAtLeast(a, b) ==
    LET sa == calculatePatternScore(a)
        sb == calculatePatternScore(b)
    IN  \/ sa.inf
        \/ ~sb.inf /\ sa.num * sb.den >= sb.num * sa.den

\* The pattern of the store the call found that has the given id.
PatternOf(id) == CHOOSE q \in generated[1].store : q.id = id

SelectedIds == {generated[1].selected[i] : i \in DOMAIN generated[1].selected}

\* The patterns of that store that are relevant to the hints of the call.
RelevantIds ==
    {q.id : q \in {p \in generated[1].store :
                      isPatternRelevant(p, generated[1].hints)}}

\* C35: the patterns generateFutureTask used are relevant ones with the
\* highest scores: each has a score at least that of every relevant pattern
\* it did not use, and they stand in non-increasing score order, patterns
\* with executionTime 0 (score Infinity) included.
C35_HighestScoresFirst ==
    generated # <<>> =>
        /\ SelectedIds \subseteq RelevantIds
        /\ \A a \in SelectedIds, b \in RelevantIds \ SelectedIds :
              ScoreAtLeast(PatternOf(a), PatternOf(b))
        /\ \A i, j \in DOMAIN generated[1].selected :
              i < j => ScoreAtLeast(PatternOf(generated[1].selected[i]),
                                    PatternOf(generated[1].selected[j]))

\* Of two relevant patterns the second in the store spans no time; it was
\* selected alone, or before the other.
C35_Witness ==
    /\ generated # <<>>
    /\ RelevantIds = {1, 2}
    /\ PatternOf(2).executionTime = 0
    /\ PatternOf(1).executionTime # 0
    /\ generated[1].selected \in {<<2>>, <<2, 1>>}

-----------------------------------------------------------------------------
(* AbsoluteZeroGenerator: what the synthesized recording is made of *)

\* The token sequences of the selected patterns, one after the other in
\* selection order.
SelectedTokens ==
    Concat([i \in DOMAIN generated[1].selected |->
               PatternOf(generated[1].selected[i]).actionSequence])

\* The `type:subtype` of an action of the returned recording.
TypeSubtype(a) == Spell(a.type) \o <<":">> \o Spell(a.subtype)

\* C36: the recording generateFutureTask returns has as many actions as the
\* selected patterns have tokens in total, and the type:subtype of its
\* actions, in order, are those tokens in selection order: the
\* duplicate-removal pass has removed none of them, no synthesized action
\* being equal to its predecessor in type and whole event, timestamp
\* included.
C36_TokensReassembled ==
    generated # <<>> =>
        /\ Len(generated[1].actions) = Len(SelectedTokens)
        /\ [k \in DOMAIN generated[1].actions |->
               TypeSubtype(generated[1].actions[k])] = SelectedTokens

\* Two patterns were selected, the first ending with the token the second
\* begins with: the recording has two neighbours of one type and subtype.
C36_Witness ==
    /\ generated # <<>>
    /\ Len(generated[1].selected) = 2
    /\ Len(generated[1].actions) = 3
    /\ \E k \in 1..2 :
          TypeSubtype(generated[1].actions[k])
              = TypeSubtype(generated[1].actions[k + 1])

-----------------------------------------------------------------------------
(* BrickPlayer: every run ends *)

\* Run i returns in this step.
Returns(i) == i \in DOMAIN runs /\ Live(runs[i]) /\ ~Live(runs'[i])

\* C40: every run of play() ends, and ends with the engine Idle: a live run
\* eventually returns with isPlaying false, whether it dispatched all its
\* actions, was cancelled by stop() or left the loop on a dispatch error;
\* isPlaying then stays false until a play() begins a new run; and when a
\* run that nothing interrupted and in which no dispatch failed returns, the
\* cursor equals the length of the sequence.
C40_RunsEndIdle ==
    /\ \A i \in 1..MaxCalls :
          (i \in DOMAIN runs /\ Live(runs[i]))
              ~> (i \in DOMAIN runs /\ ~Live(runs[i]) /\ ~isPlaying)
    /\ [][\A i \in 1..MaxCalls :
             Returns(i) =>
                 /\ ~isPlaying'
                 /\ (Uninterrupted(runs'[i]) /\ ~runs'[i].threw
                        => currentIndex' = Len(actions'))]_vars
    /\ [][~isPlaying /\ isPlaying' => Len(runs') = Len(runs) + 1]_vars

\* A run that nothing interrupted has dispatched its two actions and
\* returned: the engine is Idle and the cursor is at the end of the sequence.
C40_Witness ==
    /\ ~isPlaying
    /\ \E i \in DOMAIN runs :
          /\ ~Live(runs[i]) /\ Uninterrupted(runs[i]) /\ ~runs[i].threw
          /\ Len(runs[i].log) = 2 /\ currentIndex = Len(actions)

=============================================================================
